---------------------------- MODULE Spec2Model ----------------------------
(***************************************************************************)
(* A model of the quantitative screener: the returns ledger                *)
(* (returns_tracker.py), the signal library and aggregator                 *)
(* (quant_screener.py) and the backtest simulator (backtester.py).         *)
(*                                                                         *)
(* Numbers.  The program computes in binary floating point; the model      *)
(* computes in fixed point on integers:                                    *)
(*   - money is counted in cents (round(x, 2) is a rounding to a cent);    *)
(*   - a percentage is counted in hundredths of a percent;                 *)
(*   - a signal value or a composite score v is the integer v * 10000;     *)
(*   - a simple return r is the integer r * 10000.                         *)
(* Capitals and prices are kept small so that every intermediate product   *)
(* stays inside TLC's 32-bit integers.                                     *)
(***************************************************************************)
EXTENDS Integers, Sequences, FiniteSets, TLC

VARIABLES
    \* ReturnsTracker (returns_tracker.py)
    rt_initial_capital,  \* ReturnsTracker.initial_capital (constructor argument)
    history,             \* ReturnsTracker.history (the in-memory ledger)
    history_file,        \* the content of ReturnsTracker.history_file on disk
    rt_call,             \* the last ReturnsTracker call and its outcome
    \* QuantScreener (quant_screener.py)
    market_returns,      \* RelativeStrength.market_returns
    results,             \* QuantScreener.results
    scan_call,           \* the last QuantScreener call, its arguments and outcome
    prev_call,           \* the QuantScreener call before it
    query_call,          \* the last get_top_stocks / get_bottom_stocks call, if it was the last call
    signal_call,         \* the last compute call made on a signal directly, if it was the last call
    \* Backtester (backtester.py)
    num_picks,           \* Backtester.num_picks (constructor argument)
    bt_results,          \* Backtester.results
    bt_call,             \* the last run_backtest call: arguments, position, outcome
    test_dates,          \* run_backtest's test_dates
    loop_i,              \* the index i of the next loop iteration
    current_picks,       \* run_backtest's current_picks
    rebalance_counter,   \* run_backtest's rebalance_counter
    portfolio_value,     \* run_backtest's portfolio_value
    market_value,        \* run_backtest's market_value
    equity_curve,        \* run_backtest's equity_curve
    market_curve,        \* run_backtest's market_curve
    daily_results,       \* run_backtest's daily_results
    other_picks,         \* current_picks of the same run over the other benchmark
    \* run_screener.py
    rs_call,             \* the last run_screener invocation: its IST date and the last bar it fetched
    scan_files           \* the scan_<date>.json files of the output directory, by name

rt_vars == <<rt_initial_capital, history, history_file, rt_call>>

qs_vars == <<market_returns, results, scan_call, prev_call, query_call,
             signal_call>>

bt_vars == <<num_picks, bt_results, bt_call, test_dates, loop_i, current_picks,
             rebalance_counter, portfolio_value, market_value, equity_curve,
             market_curve, daily_results, other_picks>>

rs_vars == <<rs_call, scan_files>>

vars == <<rt_vars, qs_vars, bt_vars, rs_vars>>

-----------------------------------------------------------------------------
(* Arithmetic helpers                                                      *)

Abs(x) == IF x < 0 THEN -x ELSE x

Max(a, b) == IF a >= b THEN a ELSE b

Min(a, b) == IF a <= b THEN a ELSE b

\* Python's round(): the quotient a / b (b > 0) rounded to the nearest
\* integer, a tie going to the even neighbour.
RoundDiv(a, b) ==
    LET q == a \div b
        r == a % b
    IN  IF 2 * r < b THEN q
        ELSE IF 2 * r > b THEN q + 1
        ELSE IF q % 2 = 0 THEN q ELSE q + 1

\* numpy.clip(x, lo, hi)
Clip(x, lo, hi) == IF x < lo THEN lo ELSE IF x > hi THEN hi ELSE x

RECURSIVE SumTo(_, _)
\* s[1] + ... + s[n]
SumTo(s, n) == IF n = 0 THEN 0 ELSE s[n] + SumTo(s, n - 1)

Sum(s) == SumTo(s, Len(s))

Last(s) == s[Len(s)]

\* A function on 1 .. n as the tuple of its values (each value is computed
\* once, when the tuple is built).
List(f) == f \o <<>>

RECURSIVE SumSqDevTo(_, _, _)
\* (s[1] - m)^2 + ... + (s[n] - m)^2
SumSqDevTo(s, m, n) ==
    IF n = 0 THEN 0 ELSE (s[n] - m) * (s[n] - m) + SumSqDevTo(s, m, n - 1)

RECURSIVE ISqrtBetween(_, _, _)
\* the largest r in lo .. hi with r * r <= n
ISqrtBetween(n, lo, hi) ==
    IF lo >= hi THEN lo
    ELSE LET mid == (lo + hi + 1) \div 2
         IN  IF mid * mid <= n THEN ISqrtBetween(n, mid, hi)
             ELSE ISqrtBetween(n, lo, mid - 1)

\* the square root, rounded down
ISqrt(n) == ISqrtBetween(n, 0, 46340)

\* the mean of a series, in the unit of its values
Mean(xs) == RoundDiv(Sum(xs), Len(xs))

\* pandas' Series.std() (ddof = 1), in tenths of the unit of the values
Std10(xs) ==
    LET ss == SumSqDevTo(xs, Mean(xs), Len(xs))
    IN  IF ss < 20000000 THEN ISqrt((ss * 100) \div (Len(xs) - 1))
        ELSE 10 * ISqrt(ss \div (Len(xs) - 1))

Sign(x) == IF x > 0 THEN 1 ELSE IF x < 0 THEN -1 ELSE 0

-----------------------------------------------------------------------------
(* ReturnsTracker (returns_tracker.py)                                     *)

\* The ledger is followed until it holds this many records.
MaxRecords == 2

\* One percent, in the model's unit (a hundredth of a percent).
OnePct == 10 * 10

\* Dates are counted in trading days.
LedgerDates == {1, 2, 3}

\* The initial_capital arguments a tracker is constructed with, in cents.
Capitals == {1000, 2000}

\* The daily returns handed to record_daily_return, as pairs (strategy,
\* market) in hundredths of a percent: a total loss and a loss beyond it
\* are finite returns too.
DailyPcts ==
    { <<-150 * OnePct, 333>>, <<-100 * OnePct, -100 * OnePct>>,
      <<-1050, 333>>, <<25 * OnePct, 0>> }

\* The picks lists handed to record_daily_return (None is the empty list:
\* both are false in "if picks").
PickLists ==
    { <<>>,
      << [symbol |-> "A", return_pct |-> -50], [symbol |-> "B", return_pct |-> 150],
         [symbol |-> "C", return_pct |-> 150] >> }

\* The history file: absent, present but not parseable, or holding a ledger.
NoFile == [status |-> "missing", content |-> <<>>]

Unreadable == [status |-> "unreadable", content |-> <<>>]

None == "None"

\* A JSON document is a tree of tagged values.  json.dump writes None as
\* null, a str as a string, a number as a number, a list as an array and a
\* dict as an object; json.load reads them back by their tag.

\* json.dump of one daily_record
DumpRecord(r) ==
    LET String(s) == [json |-> "string", text |-> s]
        Number(x) == [json |-> "number", value |-> x]
        Optional(v) == IF v = None THEN [json |-> "null"] ELSE String(v)
    IN  [ json    |-> "object",
          members |-> [ date                |-> String(r.date),
                        strategy_return_pct |-> Number(r.strategy_return_pct),
                        market_return_pct   |-> Number(r.market_return_pct),
                        picks_count         |-> Number(r.picks_count),
                        winning_picks       |-> Number(r.winning_picks),
                        top_performer       |-> Optional(r.top_performer),
                        worst_performer     |-> Optional(r.worst_performer) ] ]

\* json.load of one daily_record
LoadRecord(j) ==
    LET Optional(v) == IF v.json = "null" THEN None ELSE v.text
    IN  [ date                |-> j.members.date.text,
          strategy_return_pct |-> j.members.strategy_return_pct.value,
          market_return_pct   |-> j.members.market_return_pct.value,
          picks_count         |-> j.members.picks_count.value,
          winning_picks       |-> j.members.winning_picks.value,
          top_performer       |-> Optional(j.members.top_performer),
          worst_performer     |-> Optional(j.members.worst_performer) ]

\* json.dump(self.history, f)
JsonDump(h) ==
    LET Number(x) == [json |-> "number", value |-> x]
        Numbers(xs) == [ json  |-> "array",
                         items |-> List([i \in 1 .. Len(xs) |-> Number(xs[i])]) ]
    IN  [ json    |-> "object",
          members |-> [ initial_capital |-> Number(h.initial_capital),
                        daily_returns   |->
                            [ json  |-> "array",
                              items |-> List([i \in 1 .. Len(h.daily_returns) |->
                                                 DumpRecord(h.daily_returns[i])]) ],
                        strategy_equity |-> Numbers(h.strategy_equity),
                        market_equity   |-> Numbers(h.market_equity),
                        total_strategy_return_pct |-> Number(h.total_strategy_return_pct),
                        total_market_return_pct   |-> Number(h.total_market_return_pct) ] ]

\* json.load(f)
JsonLoad(j) ==
    LET Numbers(a) == List([i \in 1 .. Len(a.items) |-> a.items[i].value])
    IN  [ initial_capital |-> j.members.initial_capital.value,
          daily_returns   |->
              List([i \in 1 .. Len(j.members.daily_returns.items) |->
                       LoadRecord(j.members.daily_returns.items[i])]),
          strategy_equity |-> Numbers(j.members.strategy_equity),
          market_equity   |-> Numbers(j.members.market_equity),
          total_strategy_return_pct |-> j.members.total_strategy_return_pct.value,
          total_market_return_pct   |-> j.members.total_market_return_pct.value ]

\* A _save_history that leaves no file behind.
Saved_Unwritten(h) == NoFile

\* _save_history: the file holds the dumped ledger.
Saved(h) == [status |-> "ok", content |-> JsonDump(h)]

\* _load_history's fresh ledger (also reset_history's).  start_date, the
\* wall-clock date of the call, is left out: nothing reads it.
FreshHistory(capital) ==
    [ initial_capital           |-> capital,
      daily_returns             |-> <<>>,
      strategy_equity           |-> <<capital>>,
      market_equity             |-> <<capital>>,
      total_strategy_return_pct |-> 0,
      total_market_return_pct   |-> 0 ]

\* A _load_history that ignores the capital the tracker is constructed with.
LoadHistory_NoCapital(file, capital) ==
    IF file.status = "ok" THEN JsonLoad(file.content) ELSE FreshHistory(0)

\* _load_history: the parsed file when it exists and parses, else the
\* fresh ledger.
LoadHistory(file, capital) ==
    IF file.status = "ok" THEN JsonLoad(file.content) ELSE FreshHistory(capital)

\* index of max(picks, key=return_pct): the first pick with the largest key
ArgMaxPick(picks) ==
    CHOOSE i \in 1 .. Len(picks) :
        /\ \A j \in 1 .. Len(picks) : picks[j].return_pct <= picks[i].return_pct
        /\ \A j \in 1 .. (i - 1) : picks[j].return_pct < picks[i].return_pct

\* index of min(picks, key=return_pct): the first pick with the smallest key
ArgMinPick(picks) ==
    CHOOSE i \in 1 .. Len(picks) :
        /\ \A j \in 1 .. Len(picks) : picks[j].return_pct >= picks[i].return_pct
        /\ \A j \in 1 .. (i - 1) : picks[j].return_pct > picks[i].return_pct

\* A call that reports nothing.
NoReturn == [raised |-> FALSE, values |-> <<>>]

\* The horizons of get_period_returns, in trading days: 1D, 1W, 1M, 3M, 6M,
\* 1Y, 3Y, 5Y.
Horizons == <<1, 5, 22, 66, 132, 252, 756, 1260>>

\* the daily_record dict of record_daily_return
DailyRecord(date, strategy_pct, market_pct, picks) ==
    [ date                |-> date,
      strategy_return_pct |-> strategy_pct,
      market_return_pct   |-> market_pct,
      picks_count         |-> Len(picks),
      winning_picks       |-> Cardinality({i \in 1 .. Len(picks) : picks[i].return_pct > 0}),
      top_performer       |-> IF picks = <<>> THEN None ELSE picks[ArgMaxPick(picks)].symbol,
      worst_performer     |-> IF picks = <<>> THEN None ELSE picks[ArgMinPick(picks)].symbol ]

\* last * (1 + pct / 100), rounded to a cent
Compound(last, pct) == RoundDiv(last * (100 * OnePct + pct), 100 * OnePct)

\* round((last * (1 + pct / 100) / capital - 1) * 100, 2): the total return
\* is taken from the unrounded new equity and the tracker's own capital.
TotalReturnPct(last, pct, capital) ==
    RoundDiv(last * (100 * OnePct + pct) - capital * 100 * OnePct, capital)

\* A record_daily_return that sees no recorded date.
ExistingDates_Empty(h) == {}

\* existing_dates of record_daily_return
ExistingDates(h) == {h.daily_returns[i].date : i \in 1 .. Len(h.daily_returns)}

\* An append that leaves the market curve as it was.
Appended_NoMarket(h, capital, date, strategy_pct, market_pct, picks) ==
    [ h EXCEPT
        !.daily_returns = Append(@, DailyRecord(date, strategy_pct, market_pct, picks)),
        !.strategy_equity = Append(@, Compound(Last(h.strategy_equity), strategy_pct)) ]

\* the ledger after the append of record_daily_return
Appended(h, capital, date, strategy_pct, market_pct, picks) ==
    [ h EXCEPT
        !.daily_returns = Append(@, DailyRecord(date, strategy_pct, market_pct, picks)),
        !.strategy_equity = Append(@, Compound(Last(h.strategy_equity), strategy_pct)),
        !.market_equity = Append(@, Compound(Last(h.market_equity), market_pct)),
        !.total_strategy_return_pct =
            TotalReturnPct(Last(h.strategy_equity), strategy_pct, capital),
        !.total_market_return_pct =
            TotalReturnPct(Last(h.market_equity), market_pct, capital) ]

\* A record_daily_return that never finds a date recorded.
AlreadyRecorded_Never(h, date) == FALSE

\* Whether record_daily_return finds the date already recorded.
AlreadyRecorded(h, date) == date \in ExistingDates(h)

\* ReturnsTracker(history_file, initial_capital): a tracker is constructed
\* over the history file.
ReturnsTracker(capital) ==
    /\ rt_initial_capital' = capital
    /\ history' = LoadHistory(history_file, capital)
    /\ rt_call' = [op |-> "construct", date |-> 0, skipped |-> FALSE,
                 returned |-> NoReturn]
    /\ UNCHANGED history_file

\* record_daily_return(date, strategy_return_pct, market_return_pct, picks)
record_daily_return(date, strategy_pct, market_pct, picks) ==
    IF AlreadyRecorded(history, date)
    THEN /\ rt_call' = [op |-> "record", date |-> date, skipped |-> TRUE,
                 returned |-> NoReturn]
         /\ UNCHANGED <<rt_initial_capital, history, history_file>>
    ELSE /\ history' = Appended(history, rt_initial_capital, date,
                                strategy_pct, market_pct, picks)
         /\ history_file' = Saved(history')
         /\ rt_call' = [op |-> "record", date |-> date, skipped |-> FALSE,
                 returned |-> NoReturn]
         /\ UNCHANGED rt_initial_capital

\* reset_history()
reset_history ==
    /\ history' = FreshHistory(rt_initial_capital)
    /\ history_file' = Saved(history')
    /\ rt_call' = [op |-> "reset", date |-> 0, skipped |-> FALSE,
                 returned |-> NoReturn]
    /\ UNCHANGED rt_initial_capital

\* calc_return(data, days_ago) of get_period_returns, for a curve longer
\* than days_ago whose value days_ago back is not 0:
\* round((data[-1] / data[-(days_ago + 1)] - 1) * 100, 2)
CalcReturn(data, days_ago) ==
    LET last == Last(data)
        base == data[Len(data) - days_ago]
    IN  IF base > 0 THEN RoundDiv((last - base) * 100 * OnePct, base)
        ELSE RoundDiv((base - last) * 100 * OnePct, 0 - base)

\* What get_period_returns gives back: the eight values in the order of
\* Horizons, or the ZeroDivisionError of data[-1] / 0.0.
PeriodReturns(equity) ==
    LET n == Len(equity)
    IN  IF \E h \in 1 .. Len(Horizons) : n > Horizons[h] /\ equity[n - Horizons[h]] = 0
        THEN [raised |-> TRUE, values |-> <<>>]
        ELSE [raised |-> FALSE,
              values |-> List([h \in 1 .. Len(Horizons) |->
                                  IF n > Horizons[h] THEN CalcReturn(equity, Horizons[h])
                                  ELSE 0])]

\* get_period_returns()
get_period_returns ==
    /\ rt_call' = [op |-> "period_returns", date |-> 0, skipped |-> FALSE,
                   returned |-> PeriodReturns(history.strategy_equity)]
    /\ UNCHANGED <<rt_initial_capital, history, history_file>>

\* The history file is lost or damaged between two runs of the program.
FileDamaged ==
    /\ history_file.status = "ok"
    /\ history_file' \in {NoFile, Unreadable}
    /\ rt_call' = [op |-> "damage", date |-> 0, skipped |-> FALSE,
                 returned |-> NoReturn]
    /\ UNCHANGED <<rt_initial_capital, history>>

InitLedger ==
    /\ rt_initial_capital \in Capitals
    /\ history_file = NoFile
    /\ history = LoadHistory(history_file, rt_initial_capital)
    /\ rt_call = [op |-> "construct", date |-> 0, skipped |-> FALSE,
                 returned |-> NoReturn]


-----------------------------------------------------------------------------
(* The signal library (quant_screener.py)                                  *)
(*                                                                         *)
(* A DataFrame is a record of equally long columns, rows in date order:    *)
(*   [dates, open, close, volume, has_open, has_volume]                    *)
(* has_open / has_volume tell whether the frame has the column at all: a   *)
(* read of a missing column raises KeyError.  A date is the number of a    *)
(* trading day; trading day d falls on weekday (d - 1) % 5 (Monday = 0).   *)

\* One, as a signal value or a simple return (four decimal places).
Unit == 100 * 100

\* what a compute() call gives: a value, or an exception
Value(v) == [raised |-> FALSE, value |-> v]

Raised == [raised |-> TRUE, value |-> 0]

RowCount(df) == Len(df.dates)

\* df[mask] for a mask that keeps the first k rows
FirstRows(df, k) ==
    [ df EXCEPT !.dates = SubSeq(@, 1, k), !.open = SubSeq(@, 1, k),
                !.close = SubSeq(@, 1, k), !.volume = SubSeq(@, 1, k) ]

\* col.iloc[-k]
ILoc(col, k) == col[Len(col) - k + 1]

\* col.iloc[-k:] (the last k rows)
LastN(col, k) == SubSeq(col, Len(col) - k + 1, Len(col))

\* a / b - 1 as a simple return
SimpleReturn(a, b) == RoundDiv((a - b) * Unit, b)

\* col.pct_change(periods) at row t (t > periods)
PctChange(col, t, periods) == SimpleReturn(col[t], col[t - periods])

\* col.pct_change(periods).dropna() as a series
PctChanges(col, periods) ==
    List([i \in 1 .. (Len(col) - periods) |-> PctChange(col, i + periods, periods)])

\* A z-score that is scaled but not clipped.
ClippedZ_Unclipped(x, mean, std10, divisor, lo, hi) ==
    IF std10 = 0 THEN Sign(x - mean) * Unit
    ELSE RoundDiv((x - mean) * 10 * Unit, divisor * std10)

\* (x - mean) / (std + 1e-8) / divisor, clipped: x and mean in the unit of
\* the values, std10 in tenths of it.  With a zero deviation the 1e-8 makes
\* the quotient zero or beyond every bound.
ClippedZ(x, mean, std10, divisor, lo, hi) ==
    IF std10 = 0 THEN Clip(Sign(x - mean) * Unit, lo, hi)
    ELSE Clip(RoundDiv((x - mean) * 10 * Unit, divisor * std10), lo, hi)

\* MomentumAnomaly(window).compute
MomentumAnomaly(df, window) ==
    IF RowCount(df) < window + 20 THEN Value(0)
    ELSE LET recent_return == SimpleReturn(ILoc(df.close, 1), ILoc(df.close, window))
             all_returns == PctChanges(df.close, window)
             historical_returns == SubSeq(all_returns, 1, Len(all_returns) - 1)
         IN  IF Len(historical_returns) < 20 THEN Value(0)
             ELSE Value(ClippedZ(recent_return, Mean(historical_returns),
                                 Std10(historical_returns), 3, -Unit, Unit))

\* A volume spike that reads its column before it looks at the length.
VolumeSpike_ColumnFirst(df, lookback) ==
    IF ~df.has_volume THEN Raised
    ELSE IF RowCount(df) < lookback + 5 THEN Value(0)
    ELSE LET n == RowCount(df)
             \* volumes are taken in hundredths so that the means keep two places
             recent_vol == RoundDiv(Sum(LastN(df.volume, 3)) * 100, 3)
             hist_vol == List([i \in 1 .. lookback |->
                                  df.volume[n - lookback - 3 + i] * 100])
             std10 == Std10(hist_vol)
         IN  IF std10 = 0 THEN Value(0)
             ELSE Value(ClippedZ(recent_vol, Mean(hist_vol), std10, 3, 0, Unit))

\* VolumeSpike(lookback).compute
VolumeSpike(df, lookback) ==
    IF RowCount(df) < lookback + 5 THEN Value(0)
    ELSE IF ~df.has_volume THEN Raised
    ELSE LET n == RowCount(df)
             \* volumes are taken in hundredths so that the means keep two places
             recent_vol == RoundDiv(Sum(LastN(df.volume, 3)) * 100, 3)
             hist_vol == List([i \in 1 .. lookback |->
                                  df.volume[n - lookback - 3 + i] * 100])
             std10 == Std10(hist_vol)
         IN  IF std10 = 0 THEN Value(0)
             ELSE Value(ClippedZ(recent_vol, Mean(hist_vol), std10, 3, 0, Unit))

\* k * sum(x^2) - (sum x)^2 = k * (k - 1) * variance (ddof = 1) of a series
ScaledVar(xs) ==
    Len(xs) * SumSqDevTo(xs, 0, Len(xs)) - Sum(xs) * Sum(xs)

\* VolatilityCompression(short_window, long_window).compute
\* ratio^2 = var_short / var_long
\*         = (A_s / (s * (s - 1))) / (A_l / (l * (l - 1))), A = ScaledVar
VolatilityCompression(df, short_window, long_window) ==
    IF RowCount(df) < long_window + 10 THEN Value(0)
    ELSE LET returns == PctChanges(df.close, 1)
             a_s == ScaledVar(LastN(returns, short_window))
             a_l == ScaledVar(LastN(returns, long_window))
             ks == short_window * (short_window - 1)
             kl == long_window * (long_window - 1)
             \* ratio < p / q  <=>  a_s * kl * q^2 < a_l * ks * p^2
             \* (short 5, long 20: kl / ks = 19)
             num == a_s * (kl \div ks)
         IN  IF a_l = 0 THEN Value(0)
             ELSE IF num * 25 < a_l * 9 THEN Value(Unit)
             ELSE IF num * 25 < a_l * 16 THEN Value(Unit \div 2)
             ELSE IF num * 4 > a_l * 9 THEN Value(-(Unit \div 2))
             ELSE Value(0)

\* MeanReversionSetup(window).compute
\* z = (c - mean) / std, mean = S / w, std^2 = B / (w * (w - 1)),
\* B = ScaledVar; with d = w * c - S:  z^2 = d^2 * (w - 1) / (w * B)
MeanReversionSetup(df, window) ==
    IF RowCount(df) < window + 10 THEN Value(0)
    ELSE LET closes == LastN(df.close, window)
             d == window * ILoc(df.close, 1) - Sum(closes)
             b == ScaledVar(closes)
             lhs == d * d * (window - 1)
         IN  IF b = 0 THEN Value(0)
             \* |z| > 2   <=>  lhs > 4 * w * b;  |z| > 1.5  <=>  4 * lhs > 9 * w * b
             ELSE IF d < 0 /\ lhs > 4 * window * b THEN Value((8 * Unit) \div 10)
             ELSE IF d < 0 /\ 4 * lhs > 9 * window * b THEN Value(Unit \div 2)
             ELSE IF d > 0 /\ lhs > 4 * window * b THEN Value(-((8 * Unit) \div 10))
             ELSE IF d > 0 /\ 4 * lhs > 9 * window * b THEN Value(-(Unit \div 2))
             ELSE Value(0)

\* TrendConsistency(window).compute: scipy.stats.linregress of the last
\* `window` closes on 0 .. window - 1
TrendConsistency(df, window) ==
    IF RowCount(df) < window + 5 THEN Value(0)
    ELSE LET prices == LastN(df.close, window)
             x == List([i \in 1 .. window |-> i - 1])
             xy == List([i \in 1 .. window |-> (i - 1) * prices[i]])
             sxx == ScaledVar(x)
             syy == ScaledVar(prices)
             sxy == window * Sum(xy) - Sum(x) * Sum(prices)
             direction == IF sxy > 0 THEN 1 ELSE -1
             \* r_squared = sxy^2 / (sxx * syy), and 0 when syy = 0
             r2_num == sxy * sxy
         IN  IF syy = 0 THEN Value(0)
             \* r_squared > 0.8 and > 0.6, the common factor 5 divided out of
             \* 5 * sxy^2 > 4 * sxx * syy (sxx is a multiple of 5 for window 20)
             ELSE IF r2_num > ((4 * sxx) \div 5) * syy THEN Value(direction * Unit)
             ELSE IF r2_num > ((3 * sxx) \div 5) * syy THEN Value(direction * (Unit \div 2))
             ELSE Value(0)

\* RelativeStrength.market_returns: None, NaN or a simple return
NoBenchmark == [kind |-> "None", value |-> 0]

NaN == [kind |-> "nan", value |-> 0]

Num(v) == [kind |-> "num", value |-> v]

\* RelativeStrength.set_market_benchmark: the window-day change at the last
\* row of the frame it is handed; NaN when the frame has no row that far
\* back (an empty frame raises IndexError, see scan_universe)
MarketReturns(market_df, window) ==
    IF RowCount(market_df) <= window THEN NaN
    ELSE Num(PctChange(market_df.close, RowCount(market_df), window))

\* RelativeStrength(window).compute
RelativeStrength(df, window, benchmark) ==
    IF RowCount(df) < window + 5 \/ benchmark.kind = "None" THEN Value(0)
    ELSE IF benchmark.kind = "nan" THEN Value(0)  \* every comparison is false
    ELSE LET stock_return == SimpleReturn(ILoc(df.close, 1), ILoc(df.close, window))
             excess_return == stock_return - benchmark.value
         IN  IF excess_return > Unit \div 10 THEN Value(Unit)
             ELSE IF excess_return > Unit \div 20 THEN Value(Unit \div 2)
             ELSE IF excess_return < -(Unit \div 10) THEN Value(-Unit)
             ELSE IF excess_return < -(Unit \div 20) THEN Value(-(Unit \div 2))
             ELSE Value(0)

\* GapPattern.compute: the mean of the last three overnight gaps
GapPattern(df) ==
    IF RowCount(df) < 10 THEN Value(0)
    ELSE IF ~df.has_open THEN Raised
    ELSE LET gaps == [i \in 1 .. 3 |->
                         SimpleReturn(ILoc(df.open, 4 - i), ILoc(df.close, 5 - i))]
             \* avg_gap > 0.02  <=>  sum > 0.06
             total == Sum(gaps)
         IN  IF total > (6 * Unit) \div 100 THEN Value((8 * Unit) \div 10)
             ELSE IF total > (3 * Unit) \div 100 THEN Value((4 * Unit) \div 10)
             ELSE IF total < -((6 * Unit) \div 100) THEN Value(-((8 * Unit) \div 10))
             ELSE IF total < -((3 * Unit) \div 100) THEN Value(-((4 * Unit) \div 10))
             ELSE Value(0)

\* DatetimeIndex.dayofweek of a trading day
DayOfWeek(date) == (date - 1) % 5

\* DayOfWeekEffect.compute
DayOfWeekEffect(df) ==
    IF RowCount(df) < 60 THEN Value(0)
    ELSE LET n == RowCount(df)
             returns == PctChanges(df.close, 1)   \* returns[i] is row i + 1's
             today == DayOfWeek(df.dates[n])
             same_day == SelectSeq(List([i \in 1 .. (n - 1) |-> i]),
                                   LAMBDA i : DayOfWeek(df.dates[i + 1]) = today)
             today_sum == Sum([j \in 1 .. Len(same_day) |-> returns[same_day[j]]])
             k == Len(same_day)
             overall_sum == Sum(returns)
             \* today_avg > overall_avg + 0.001, both sides times k * (n - 1)
             lhs == today_sum * (n - 1)
             rhs == overall_sum * k
             margin == (Unit \div 1000) * k * (n - 1)
         IN  IF lhs > rhs + margin THEN Value(Unit \div 2)
             ELSE IF lhs < rhs - margin THEN Value(-(Unit \div 2))
             ELSE Value(0)

\* PriceAcceleration(window).compute
PriceAcceleration(df, window) ==
    IF RowCount(df) < window * 3 THEN Value(0)
    ELSE LET momentum == PctChanges(df.close, window)
             acceleration == List([i \in 1 .. (Len(momentum) - window) |->
                                      momentum[i + window] - momentum[i]])
             current_accel == Last(acceleration)
             hist_accel == SubSeq(acceleration, 1, Len(acceleration) - 1)
             std10 == Std10(hist_accel)
         IN  IF std10 = 0 THEN Value(0)
             ELSE Value(ClippedZ(current_accel, 0, std10, 2, -Unit, Unit))

\* VolumeProfileAnomaly(window).compute
VolumeProfileAnomaly(df, window) ==
    IF RowCount(df) < window + 5 THEN Value(0)
    ELSE IF ~df.has_volume THEN Raised
    ELSE LET close == LastN(df.close, window)
             volume == LastN(df.volume, window)
             obv_changes == [i \in 1 .. (window - 1) |->
                                Sign(close[i + 1] - close[i]) * volume[i + 1]]
             net_flow == Sum(obv_changes)
             \* avg_volume * window = sum(volume)
             total_volume == Sum(volume)
         IN  IF total_volume = 0 THEN Value(0)
             ELSE Value(Clip(RoundDiv(net_flow * 2 * Unit, total_volume), -Unit, Unit))

-----------------------------------------------------------------------------
(* QuantScreener (quant_screener.py)                                       *)

\* A score_stock that asks for half as many bars.
MinBars_Half == 60 \div 2

\* score_stock's minimum history
MinBars == 60

\* the |value| above which a signal counts as active, 0.3
ActiveCutoff == (3 * Unit) \div 10

\* QuantScreener.signals, in order: name and weight (in tenths)
Signals ==
    << [name |-> "momentum_5d", weight |-> 12],
       [name |-> "momentum_10d", weight |-> 12],
       [name |-> "volume_spike", weight |-> 10],
       [name |-> "vol_compression", weight |-> 11],
       [name |-> "mean_reversion", weight |-> 10],
       [name |-> "trend_quality", weight |-> 8],
       [name |-> "relative_strength", weight |-> 10],
       [name |-> "gap_pattern", weight |-> 9],
       [name |-> "day_effect", weight |-> 5],
       [name |-> "price_acceleration", weight |-> 9],
       [name |-> "volume_profile", weight |-> 10] >>

SignalIds == 1 .. Len(Signals)

\* signal.compute(df) of the k-th signal of QuantScreener.signals
Compute(k, df, benchmark) ==
    CASE k = 1 -> MomentumAnomaly(df, 5)
      [] k = 2 -> MomentumAnomaly(df, 10)
      [] k = 3 -> VolumeSpike(df, 20)
      [] k = 4 -> VolatilityCompression(df, 5, 20)
      [] k = 5 -> MeanReversionSetup(df, 20)
      [] k = 6 -> TrendConsistency(df, 20)
      [] k = 7 -> RelativeStrength(df, 20, benchmark)
      [] k = 8 -> GapPattern(df)
      [] k = 9 -> DayOfWeekEffect(df)
      [] k = 10 -> PriceAcceleration(df, 10)
      [] k = 11 -> VolumeProfileAnomaly(df, 20)

\* round(score, 3)
Round3(score) == RoundDiv(score, 10) * 10

\* what score_stock gives: a StockScore, None, or an exception
NoScore == [status |-> "None"]

ScoreRaised == [status |-> "raised"]

\* The weight a signal adds to total_weight: the addition sits in the try
\* block after compute(), so a signal that raised adds none.
WeightCounted(k, outcome) == IF outcome.raised THEN 0 ELSE Signals[k].weight

\* the convergence bonus for a number of active signals
ConvergenceBonus(active_signals) ==
    IF active_signals >= 5 THEN (2 * Unit) \div 10
    ELSE IF active_signals >= 3 THEN Unit \div 10
    ELSE 0

\* The aggregation of score_stock over the outcomes of the signals:
\* [composite_score, active_signals, signal_breakdown], or None when no
\* signal contributed a weight.
Aggregate(outcomes) ==
    LET scores == List([k \in SignalIds |->
                           IF outcomes[k].raised THEN 0 ELSE Round3(outcomes[k].value)])
        total_weighted_score ==
            Sum([k \in SignalIds |->
                    IF outcomes[k].raised THEN 0
                    ELSE outcomes[k].value * Signals[k].weight])
        total_weight == Sum([k \in SignalIds |-> WeightCounted(k, outcomes[k])])
        active_signals ==
            Cardinality({k \in SignalIds :
                            ~outcomes[k].raised /\ Abs(outcomes[k].value) > ActiveCutoff})
        convergence_bonus == ConvergenceBonus(active_signals)
        positive_signals == Cardinality({k \in SignalIds : scores[k] > ActiveCutoff})
        negative_signals == Cardinality({k \in SignalIds : scores[k] < -ActiveCutoff})
        adjustment == IF positive_signals > negative_signals THEN convergence_bonus
                      ELSE IF negative_signals > positive_signals THEN -convergence_bonus
                      ELSE 0
    IN  IF total_weight = 0 THEN NoScore
        ELSE [ status           |-> "ok",
               \* round(total_weighted_score / total_weight + adjustment, 4)
               composite_score  |-> RoundDiv(total_weighted_score
                                                 + adjustment * total_weight,
                                             total_weight),
               active_signals   |-> active_signals,
               signal_breakdown |-> scores ]

\* QuantScreener.score_stock(symbol, df), with the benchmark return the
\* RelativeStrength signal holds.  scan_date, the wall-clock time of the
\* call, is left out.
score_stock(symbol, df, benchmark) ==
    IF RowCount(df) < MinBars THEN NoScore
    ELSE LET agg == Aggregate(List([k \in SignalIds |-> Compute(k, df, benchmark)]))
         IN  IF agg.status = "None" THEN NoScore
             \* 'avg_volume': df['volume'] raises on a frame without the column
             ELSE IF ~df.has_volume THEN ScoreRaised
             ELSE [ status           |-> "ok",
                    symbol           |-> symbol,
                    composite_score  |-> agg.composite_score,
                    active_signals   |-> agg.active_signals,
                    signal_breakdown |-> agg.signal_breakdown,
                    last_price       |-> ILoc(df.close, 1),
                    change_1d        |-> SimpleReturn(ILoc(df.close, 1), ILoc(df.close, 2)),
                    change_5d        |-> SimpleReturn(ILoc(df.close, 1), ILoc(df.close, 5)),
                    avg_volume       |-> Sum(LastN(df.volume, 20)) \div 20,
                    \* in hundredths of a percent
                    volatility_20d   |->
                        RoundDiv(Std10(LastN(PctChanges(df.close, 1), 20)), 10) ]

RECURSIVE InsertByScore(_, _)
\* list.sort(key=composite_score, reverse=True) is stable: an entry goes
\* behind every entry whose score is at least its own.
InsertByScore(sorted, r) ==
    IF sorted = <<>> THEN <<r>>
    ELSE IF Head(sorted).composite_score >= r.composite_score
         THEN <<Head(sorted)>> \o InsertByScore(Tail(sorted), r)
         ELSE <<r>> \o sorted

RECURSIVE SortByScoreTo(_, _)
\* the first n entries of results, sorted
SortByScoreTo(scored, n) ==
    IF n = 0 THEN <<>>
    ELSE InsertByScore(SortByScoreTo(scored, n - 1), scored[n])

\* A scan_universe that leaves the results in the order they were scored.
SortByScore_Unsorted(scored) == scored

\* results.sort(key=lambda x: x['composite_score'], reverse=True)
SortByScore(scored) == SortByScoreTo(scored, Len(scored))

\* A scan that a raising symbol ends: nothing is scored.
ScoredItems_Abort(stock_data, benchmark) ==
    LET scored == List([i \in 1 .. Len(stock_data) |->
                           score_stock(stock_data[i].symbol, stock_data[i].df,
                                       benchmark)])
    IN  IF \E i \in 1 .. Len(scored) : scored[i].status = "raised" THEN <<>>
        ELSE SelectSeq(scored, LAMBDA r : r.status = "ok")

\* stock_data is a dict: a sequence of [symbol, df] items in iteration
\* order.  The results list of scan_universe before the sort: the scores
\* of the symbols score_stock neither refused (None) nor raised on.
ScoredItems(stock_data, benchmark) ==
    LET scored == List([i \in 1 .. Len(stock_data) |->
                           score_stock(stock_data[i].symbol, stock_data[i].df,
                                       benchmark)])
    IN  SelectSeq(scored, LAMBDA r : r.status = "ok")

\* market_data = None
NoFrame == [none |-> TRUE]

\* The benchmark return the RelativeStrength signal holds once
\* scan_universe has looked at market_data (None: no benchmark handed in).
BenchmarkAfter(benchmark, market_data) ==
    IF market_data = NoFrame THEN benchmark
    ELSE MarketReturns(market_data, 20)

\* the list scan_universe returns and stores
ScanResults(stock_data, market_data, benchmark) ==
    SortByScore(ScoredItems(stock_data, BenchmarkAfter(benchmark, market_data)))

-----------------------------------------------------------------------------
(* Price histories                                                         *)
(*                                                                         *)
(* The histories the scans and backtests are run on.  A history is drawn   *)
(* from a shape: a base price, a repeating pattern of daily offsets, a     *)
(* drift of one price step every `drift` days and, from day `turn` on, a   *)
(* move of `step` per day for `run` days.                                  *)

\* the trading days of the data, 1 .. NumDays
NumDays == 72

Shape(base, pattern, drift, turn, step, run, gap, vol, first) ==
    [ base |-> base, pattern |-> pattern, drift |-> drift, turn |-> turn,
      step |-> step, run |-> run, gap |-> gap, vol |-> vol, first |-> first ]

\* the close of a shape on trading day d
CloseAt(sh, d) ==
    sh.base + sh.pattern[(d % Len(sh.pattern)) + 1]
            + (IF sh.drift = 0 THEN 0 ELSE d \div sh.drift)
            + sh.step * Clip(d - sh.turn, 0, sh.run)

\* the open of a shape on trading day d: the previous close plus the gap
OpenAt(sh, d) == CloseAt(sh, d - 1) + sh.gap[(d % Len(sh.gap)) + 1]

\* the volume of a shape on trading day d
VolumeAt(sh, d) == sh.vol[(d % Len(sh.vol)) + 1] + (IF d >= sh.turn THEN 2 * Abs(sh.step) ELSE 0)

\* the DataFrame of a shape over the given trading days (in order)
Frame(sh, days, has_open, has_volume) ==
    [ dates      |-> days,
      open       |-> List([i \in 1 .. Len(days) |-> OpenAt(sh, days[i])]),
      close      |-> List([i \in 1 .. Len(days) |-> CloseAt(sh, days[i])]),
      volume     |-> List([i \in 1 .. Len(days) |-> VolumeAt(sh, days[i])]),
      has_open   |-> has_open,
      has_volume |-> has_volume ]

\* days without trading
Holidays == {69}

\* the trading days first .. last, in order
Days(first, last) ==
    SelectSeq(List([j \in 1 .. (last - first + 1) |-> first + j - 1]),
              LAMBDA d : d \notin Holidays)

\* the repeating offsets, gaps and volumes the shapes are built from
P8 == <<0, 1, 2, 1, 0, -1, -2, -1>>

P6 == <<0, 1, 1, 0, -1, -1>>

P5 == <<0, 2, -1, 1, -2>>

P3 == <<0, 1, 0>>

Flat == <<0>>

G3 == <<0, 0, 1>>

V6 == <<20, 22, 25, 21, 30, 18>>

V4 == <<30, 30, 34, 28>>

V1 == <<25>>

\* The symbols and their shapes.  S02 and S03 have the same history.  S08
\* starts on day 5 and S06 on day 8; T00 .. T06 start so late that they
\* never reach 60 bars.  UP, FLAT and DOWN are 30-bar paths: up 10 % from
\* 290 to 319, flat at 290, down 10 % from 290 to 261.  S01X is S01 in a
\* frame without an open column, S05V is S05 in a frame without a volume
\* column.  The net volume flow of S09 over its last 20 bars is a little
\* more than 15 % of the volume traded.  S10 is S02 without a bar on day
\* 62, a day the other symbols trade on.
ShapeOf(symbol) ==
    CASE symbol = "S01"  -> Shape(100, P8, 9, 62, 1, 6, G3, V6, 1)
      [] symbol = "S01X" -> Shape(100, P8, 9, 62, 1, 6, G3, V6, 1)
      [] symbol = "S02"  -> Shape(120, P6, 0, 64, 2, 4, Flat, V4, 1)
      [] symbol = "S03"  -> Shape(120, P6, 0, 64, 2, 4, Flat, V4, 1)
      [] symbol = "S04"  -> Shape(110, P5, 12, 66, -1, 5, Flat, V6, 1)
      [] symbol = "S05"  -> Shape(90, P3, 7, 60, 1, 3, <<1>>, V4, 1)
      [] symbol = "S05V" -> Shape(90, P3, 7, 60, 1, 3, <<1>>, V4, 1)
      [] symbol = "S06"  -> Shape(105, P8, 0, 68, -2, 3, Flat, V1, 8)
      [] symbol = "S07"  -> Shape(100, Flat, 0, 99, 0, 0, Flat, V1, 1)
      [] symbol = "S08"  -> Shape(120, P6, 0, 64, 2, 4, Flat, V4, 5)
      [] symbol = "S09"  -> Shape(110, P5, 9, 99, 0, 0, <<1>>, <<4143, 4000, 4000, 4000>>, 1)
      [] symbol = "S10"  -> Shape(120, P6, 0, 64, 2, 4, Flat, V4, 1)
      [] symbol = "T00"  -> Shape(50, P3, 0, 99, 0, 0, Flat, V1, 38)
      [] symbol = "T01"  -> Shape(51, P3, 0, 99, 0, 0, Flat, V1, 41)
      [] symbol = "T02"  -> Shape(52, P3, 0, 99, 0, 0, Flat, V1, 44)
      [] symbol = "T03"  -> Shape(53, P3, 0, 99, 0, 0, Flat, V1, 40)
      [] symbol = "T04"  -> Shape(54, P3, 0, 99, 0, 0, Flat, V1, 43)
      [] symbol = "T05"  -> Shape(55, P3, 0, 99, 0, 0, Flat, V1, 39)
      [] symbol = "T06"  -> Shape(56, P3, 0, 99, 0, 0, Flat, V1, 42)
      [] symbol = "UP"   -> Shape(289, Flat, 0, 0, 1, 99, Flat, V1, 1)
      [] symbol = "FLAT" -> Shape(290, Flat, 0, 99, 0, 0, Flat, V1, 1)
      [] symbol = "DOWN" -> Shape(291, Flat, 0, 0, -1, 99, Flat, V1, 1)

\* the number of bars of the 30-day paths
PathDays == 30

\* the DataFrame of a symbol: its whole history
History(symbol) ==
    LET sh == ShapeOf(symbol)
        days == Days(sh.first,
                     IF symbol \in {"UP", "FLAT", "DOWN"} THEN PathDays ELSE NumDays)
    IN  Frame(sh, SelectSeq(days, LAMBDA d : ~(symbol = "S10" /\ d = 62)),
              symbol # "S01X", symbol # "S05V")

\* a stock_data dict with the given symbols in the given iteration order
StockData(symbols) ==
    List([j \in 1 .. Len(symbols) |-> [symbol |-> symbols[j], df |-> History(symbols[j])]])

\* The benchmark the backtests run against, and a second benchmark with the
\* same bars up to and including day LastSameDay and a fall after it.
LastSameDay == 70

MarketShape(market) ==
    IF market = "B" THEN Shape(200, P6, 6, LastSameDay + 1, -12, 2, Flat, V1, 1)
    ELSE Shape(200, P6, 6, 99, 0, 0, Flat, V1, 1)

\* market_data: None, a frame without rows ("empty"), or a benchmark frame
MarketData(market) ==
    IF market = None THEN NoFrame
    ELSE IF market = "empty" THEN Frame(MarketShape("A"), <<>>, TRUE, TRUE)
    ELSE Frame(MarketShape(market), Days(1, NumDays), TRUE, TRUE)

-----------------------------------------------------------------------------
(* QuantScreener: state and calls                                          *)

\* the universes scan_universe is called with: dicts in iteration order
Universes ==
    { <<"S01", "S02", "S03">>,
      <<"S03", "S02", "S01">>,
      <<"UP", "FLAT", "DOWN">>,
      <<"S04", "S01X", "S05V">>,
      <<"S09", "S07">> }

\* the market_data arguments
Markets == {None, "A", "empty"}

\* the symbols of a result list, in order
Ranking(rs) == List([j \in 1 .. Len(rs) |-> rs[j].symbol])

NoCall ==
    [ op |-> "none", symbols |-> <<>>, market |-> None, upto |-> NumDays,
      raised |-> FALSE, benchmark |-> NoBenchmark, ranking |-> <<>> ]

\* No get_top_stocks / get_bottom_stocks call was made since the last scan.
NoQuery == [op |-> "none", n |-> 0, score |-> 0, returned |-> <<>>]

\* xs[:n], n >= 0
Take(xs, n) == SubSeq(xs, 1, Min(n, Len(xs)))

RECURSIVE SortedAscending(_)
\* sorted(bottom, key=composite_score): stable, so an entry goes behind every
\* earlier entry whose score is at most its own.
SortedAscending(scored) ==
    IF scored = <<>> THEN <<>>
    ELSE LET last == scored[Len(scored)]
             rest == SortedAscending(SubSeq(scored, 1, Len(scored) - 1))
         IN  SelectSeq(rest, LAMBDA r : r.composite_score <= last.composite_score)
                 \o <<last>>
                 \o SelectSeq(rest, LAMBDA r : r.composite_score > last.composite_score)

\* A get_top_stocks without the score threshold.
TopStocks_Unfiltered(scored, n, min_score) == Take(scored, n)

\* [r for r in self.results if r['composite_score'] >= min_score][:n]
TopStocks(scored, n, min_score) ==
    Take(SelectSeq(scored, LAMBDA r : r.composite_score >= min_score), n)

\* sorted([r for r in self.results if r['composite_score'] <= max_score],
\*        key=composite_score)[:n]
BottomStocks(scored, n, max_score) ==
    Take(SortedAscending(SelectSeq(scored, LAMBDA r : r.composite_score <= max_score)), n)

\* No signal was called directly since the last screener call.
NoSignal == [k |-> 0, symbol |-> "", rows |-> 0, outcome |-> Value(0)]

\* QuantScreener(): the RelativeStrength signal has no benchmark, results = []
InitScreener ==
    /\ market_returns = NoBenchmark
    /\ results = <<>>
    /\ scan_call = NoCall
    /\ prev_call = NoCall
    /\ query_call = NoQuery
    /\ signal_call = NoSignal

\* QuantScreener.set_market_benchmark(market_df)
set_market_benchmark(market) ==
    /\ market_returns' = MarketReturns(MarketData(market), 20)
    /\ scan_call' = [ op |-> "benchmark", symbols |-> <<>>, market |-> market,
                      upto |-> NumDays, raised |-> FALSE, benchmark |-> market_returns',
                      ranking |-> <<>> ]
    /\ prev_call' = scan_call
    /\ query_call' = NoQuery
    /\ signal_call' = NoSignal
    /\ UNCHANGED results

\* QuantScreener.get_top_stocks(n, min_score)
get_top_stocks(n, min_score) ==
    /\ query_call' = [ op |-> "top", n |-> n, score |-> min_score,
                       returned |-> TopStocks(results, n, min_score) ]
    /\ signal_call' = NoSignal
    /\ UNCHANGED <<market_returns, results, scan_call, prev_call>>

\* QuantScreener.get_bottom_stocks(n, max_score)
get_bottom_stocks(n, max_score) ==
    /\ query_call' = [ op |-> "bottom", n |-> n, score |-> max_score,
                       returned |-> BottomStocks(results, n, max_score) ]
    /\ signal_call' = NoSignal
    /\ UNCHANGED <<market_returns, results, scan_call, prev_call>>

\* signal.compute(df) for the k-th signal of QuantScreener.signals, on the
\* first rows of a symbol's history; RelativeStrength reads the benchmark
\* that set_market_benchmark left.
compute(k, symbol, rows) ==
    /\ signal_call' = [ k |-> k, symbol |-> symbol, rows |-> rows,
                        outcome |-> Compute(k, FirstRows(History(symbol), rows),
                                            market_returns) ]
    /\ query_call' = NoQuery
    /\ UNCHANGED <<market_returns, results, scan_call, prev_call>>

\* QuantScreener.scan_universe(stock_data, market_data).  A market_data
\* frame without rows makes set_market_benchmark raise IndexError
\* (.iloc[-1] of an empty column) before anything is assigned.
scan_universe(symbols, market) ==
    LET stock_data  == StockData(symbols)
        market_data == MarketData(market)
    IN  IF market_data # NoFrame /\ RowCount(market_data) = 0
        THEN /\ scan_call' = [ op |-> "scan", symbols |-> symbols, market |-> market,
                               upto |-> NumDays, raised |-> TRUE, benchmark |-> market_returns,
                               ranking |-> <<>> ]
             /\ prev_call' = scan_call
             /\ query_call' = NoQuery
             /\ signal_call' = NoSignal
             /\ UNCHANGED <<market_returns, results>>
        ELSE /\ market_returns' = BenchmarkAfter(market_returns, market_data)
             /\ results' = ScanResults(stock_data, market_data, market_returns)
             /\ scan_call' = [ op |-> "scan", symbols |-> symbols, market |-> market,
                               upto |-> NumDays, raised |-> FALSE, benchmark |-> market_returns',
                               ranking |-> Ranking(results') ]
             /\ prev_call' = scan_call
             /\ query_call' = NoQuery
             /\ signal_call' = NoSignal

-----------------------------------------------------------------------------
(* Backtester (backtester.py)                                              *)
(*                                                                         *)
(* Money held in portfolio_value / market_value is counted in 1/10000 of   *)
(* a currency unit; the curves and the summary hold round(value, 2), in    *)
(* hundredths of a unit.  Percentages are in hundredths of a percent.      *)
(* No date (None) is 0.  The summary leaves out annualized_return_pct and  *)
(* sharpe_ratio (a fractional power and a square root of floats).          *)

\* Backtester.initial_capital
initial_capital == 10 * 10

\* how often run_backtest is called
MaxRuns == 2

\* start_date / end_date = None
NoDate == 0

\* A run_backtest that is content with half as many dates.
MinDates_Half == 10 \div 2

\* the number of test dates run_backtest asks for
MinDates == 10

\* A rebalance counter that stays at 0: every day is a rebalance day.
NextCounter_Zero(counter, rebalance_days) == 0

\* rebalance_counter = (rebalance_counter + 1) % rebalance_days
NextCounter(counter, rebalance_days) == (counter + 1) % rebalance_days

\* Backtester.results = None
NoResults == [none |-> TRUE]

\* the stock_data dict of the backtests, in iteration order
BacktestSymbols ==
    <<"S01", "S04", "S06", "S07", "S08",
      "T00", "T01", "T02", "T03", "T04", "T05", "T06">>

\* the arguments run_backtest is called with
RunArgs ==
    { [symbols |-> BacktestSymbols, start_date |-> a[1], end_date |-> a[2],
       rebalance_days |-> a[3]] :
        a \in { <<NoDate, NoDate, 1>>, <<60, NoDate, 1>>, <<60, NoDate, 2>>,
                <<60, NoDate, 5>>, <<60, 69, 1>>, <<61, 69, 1>>,
                <<66, NoDate, 1>>, <<99, NoDate, 5>>, <<NoDate, 65, 5>> } }
    \cup { [symbols |-> <<>>, start_date |-> NoDate, end_date |-> NoDate,
            rebalance_days |-> 1],
           [symbols |-> BacktestSymbols \o <<"S10">>, start_date |-> 60,
            end_date |-> NoDate, rebalance_days |-> 1],
           [symbols |-> SubSeq(BacktestSymbols, 1, 9), start_date |-> 60,
            end_date |-> NoDate, rebalance_days |-> 1] }

\* sorted(list(all_dates)): every date some symbol has a bar on
SortedDates(stock_data) ==
    LET all_dates == UNION { { stock_data[j].df.dates[r] :
                                  r \in 1 .. RowCount(stock_data[j].df) } :
                             j \in 1 .. Len(stock_data) }
    IN  SelectSeq(List([d \in 1 .. NumDays |-> d]), LAMBDA d : d \in all_dates)

\* next((i for i, d in enumerate(sorted_dates) if d >= date), default)
FirstAtLeast(sorted_dates, date, default) ==
    LET hits == { j \in 1 .. Len(sorted_dates) : sorted_dates[j] >= date }
    IN  IF hits = {} THEN default
        ELSE (CHOOSE j \in hits : \A h \in hits : j <= h) - 1

\* start_idx
StartIdx(sorted_dates, start_date) ==
    IF start_date = NoDate THEN Max(0, Len(sorted_dates) - 126)
    ELSE FirstAtLeast(sorted_dates, start_date, 0)

\* end_idx
EndIdx(sorted_dates, end_date) ==
    IF end_date = NoDate THEN Len(sorted_dates) - 1
    ELSE FirstAtLeast(sorted_dates, end_date, Len(sorted_dates) - 1)

\* test_dates = sorted_dates[start_idx:end_idx + 1]
TestDates(sorted_dates, start_date, end_date) ==
    SubSeq(sorted_dates, StartIdx(sorted_dates, start_date) + 1,
           EndIdx(sorted_dates, end_date) + 1)

\* mask.sum(): the rows of df dated on or before date
RowsUpTo(df, date) == Cardinality({ r \in 1 .. RowCount(df) : df.dates[r] <= date })

\* screening_data: the history up to date of every symbol with 20 rows of it
ScreeningData(stock_data, date) ==
    LET eligible == SelectSeq(stock_data, LAMBDA it : RowsUpTo(it.df, date) >= 20)
    IN  List([j \in 1 .. Len(eligible) |->
                 [symbol |-> eligible[j].symbol,
                  df     |-> FirstRows(eligible[j].df, RowsUpTo(eligible[j].df, date))]])

\* [r for r in results if r.get('composite_score', 0) > 0][:self.num_picks]
TopPicks(rs, n) ==
    LET positive == SelectSeq(rs, LAMBDA r : r.composite_score > 0)
    IN  SubSeq(positive, 1, Min(n, Len(positive)))

\* A rebalance that drops the held picks when the screen yields none.
Rebalanced_Dropped(picks, rs, n) == TopPicks(rs, n)

\* current_picks after a screening returned rs: "if top_picks:
\* current_picks = top_picks"
Rebalanced(picks, rs, n) ==
    LET top_picks == TopPicks(rs, n)
    IN  IF top_picks # <<>> THEN top_picks ELSE picks

\* whether df has a row dated date
HasDate(df, date) == \E r \in 1 .. RowCount(df) : df.dates[r] = date

\* df.loc[mask, 'close'].iloc[0]
CloseOn(df, date) == df.close[CHOOSE r \in 1 .. RowCount(df) : df.dates[r] = date]

\* the frame of a symbol in stock_data
FrameIn(stock_data, symbol) ==
    stock_data[CHOOSE j \in 1 .. Len(stock_data) : stock_data[j].symbol = symbol].df

\* daily_returns with a pick that lacks a bar counted as a return of zero.
PickReturns_MissingAsZero(picks, stock_data, date, next_date) ==
    List([j \in 1 .. Len(picks) |->
             LET df == FrameIn(stock_data, picks[j].symbol)
             IN  IF HasDate(df, date) /\ HasDate(df, next_date)
                 THEN SimpleReturn(CloseOn(df, next_date), CloseOn(df, date))
                 ELSE 0])

\* daily_returns: the return date -> next_date of every pick that has a
\* bar on both days and a positive price
PickReturns(picks, stock_data, date, next_date) ==
    LET priced == SelectSeq(picks, LAMBDA p :
                     /\ \E j \in 1 .. Len(stock_data) : stock_data[j].symbol = p.symbol
                     /\ HasDate(FrameIn(stock_data, p.symbol), date)
                     /\ HasDate(FrameIn(stock_data, p.symbol), next_date)
                     /\ CloseOn(FrameIn(stock_data, p.symbol), date) > 0)
    IN  List([j \in 1 .. Len(priced) |->
                 SimpleReturn(CloseOn(FrameIn(stock_data, priced[j].symbol), next_date),
                              CloseOn(FrameIn(stock_data, priced[j].symbol), date))])

\* value * (1 + pct / 100)
Grow(value, ret) == value + RoundDiv(value * ret, Unit)

\* portfolio_value after the picks' day
PortfolioAfter(value, picks, stock_data, date, next_date) ==
    LET daily_returns == PickReturns(picks, stock_data, date, next_date)
    IN  IF picks # <<>> /\ daily_returns # <<>>
        THEN Grow(value, Mean(daily_returns))
        ELSE value

\* market_value after the benchmark's day
MarketAfter(value, market_data, date, next_date) ==
    IF /\ RowCount(market_data) > 0
       /\ HasDate(market_data, date) /\ HasDate(market_data, next_date)
       /\ CloseOn(market_data, date) > 0
    THEN Grow(value, SimpleReturn(CloseOn(market_data, next_date),
                                  CloseOn(market_data, date)))
    ELSE value

\* round(value, 2), in hundredths
Round2(value) == RoundDiv(value, 100)

\* round((value / self.initial_capital - 1) * 100, 2)
ReturnPct(value) == RoundDiv(value - initial_capital * Unit, initial_capital)

\* the entry appended to daily_results
DailyResult(next_date, pv, mv, picks) ==
    [ date             |-> next_date,
      portfolio_value  |-> Round2(pv),
      market_value     |-> Round2(mv),
      portfolio_return |-> ReturnPct(pv),
      market_return    |-> ReturnPct(mv),
      num_picks        |-> Len(picks) ]

\* daily_rets, in thousandths of a percent
DailyRets(curve) ==
    List([j \in 1 .. Len(curve) - 1 |->
             RoundDiv((curve[j + 1] - curve[j]) * 100000, curve[j])])

\* A drawdown measured from the start of the curve to its last value.
MaxDrawdownTo_NoPeak(curve, n, start) ==
    [peak |-> start, max_drawdown |-> RoundDiv((start - curve[n]) * 10000, start)]

RECURSIVE MaxDrawdownTo(_, _, _)
\* the peak and the largest drawdown, in hundredths of a percent, over the
\* first n values of the curve
MaxDrawdownTo(curve, n, start) ==
    IF n = 0 THEN [peak |-> start, max_drawdown |-> 0]
    ELSE LET before   == MaxDrawdownTo(curve, n - 1, start)
             peak     == Max(before.peak, curve[n])
             drawdown == RoundDiv((peak - curve[n]) * 10000, peak)
         IN  [peak |-> peak, max_drawdown |-> Max(before.max_drawdown, drawdown)]

\* the largest element of a non-empty sequence
MaxOf(xs) == CHOOSE x \in { xs[j] : j \in 1 .. Len(xs) } : \A j \in 1 .. Len(xs) : xs[j] <= x

\* the smallest element of a non-empty sequence
MinOf(xs) == CHOOSE x \in { xs[j] : j \in 1 .. Len(xs) } : \A j \in 1 .. Len(xs) : xs[j] >= x

\* A summary whose trading_days counts the dates instead of the steps.
Summary_CountingDates(dates, pv, mv, curve) ==
    LET daily_rets   == DailyRets(curve)
        winning_days == Cardinality({ j \in 1 .. Len(daily_rets) : curve[j + 1] > curve[j] })
    IN  [ start_date           |-> dates[1],
          end_date             |-> Last(dates),
          trading_days         |-> Len(dates),
          initial_capital      |-> initial_capital,
          final_value          |-> Round2(pv),
          total_return_pct     |-> ReturnPct(pv),
          market_return_pct    |-> ReturnPct(mv),
          alpha_pct            |-> RoundDiv(pv - mv, initial_capital),
          win_rate_pct         |-> IF daily_rets = <<>> THEN 0
                                   ELSE RoundDiv(winning_days * 1000, Len(daily_rets)),
          max_drawdown_pct     |-> MaxDrawdownTo(curve, Len(curve), curve[1]).max_drawdown,
          avg_daily_return_pct |-> IF daily_rets = <<>> THEN 0 ELSE Mean(daily_rets),
          best_day_pct         |-> IF daily_rets = <<>> THEN 0
                                   ELSE RoundDiv(MaxOf(daily_rets), 10),
          worst_day_pct        |-> IF daily_rets = <<>> THEN 0
                                   ELSE RoundDiv(MinOf(daily_rets), 10) ]

\* the 'summary' of the results
Summary(dates, pv, mv, curve) ==
    LET daily_rets   == DailyRets(curve)
        winning_days == Cardinality({ j \in 1 .. Len(daily_rets) : curve[j + 1] > curve[j] })
    IN  [ start_date           |-> dates[1],
          end_date             |-> Last(dates),
          trading_days         |-> Len(dates) - 1,
          initial_capital      |-> initial_capital,
          final_value          |-> Round2(pv),
          total_return_pct     |-> ReturnPct(pv),
          market_return_pct    |-> ReturnPct(mv),
          alpha_pct            |-> RoundDiv(pv - mv, initial_capital),
          win_rate_pct         |-> IF daily_rets = <<>> THEN 0
                                   ELSE RoundDiv(winning_days * 1000, Len(daily_rets)),
          max_drawdown_pct     |-> MaxDrawdownTo(curve, Len(curve), curve[1]).max_drawdown,
          avg_daily_return_pct |-> IF daily_rets = <<>> THEN 0 ELSE Mean(daily_rets),
          best_day_pct         |-> IF daily_rets = <<>> THEN 0
                                   ELSE RoundDiv(MaxOf(daily_rets), 10),
          worst_day_pct        |-> IF daily_rets = <<>> THEN 0
                                   ELSE RoundDiv(MinOf(daily_rets), 10) ]

\* Backtester(initial_capital, num_picks); no run_backtest call is under way
InitBacktester ==
    /\ num_picks \in {1, 2}
    /\ bt_results = NoResults
    /\ bt_call = [ op |-> "none", args |-> NoResults, pc |-> "idle",
                   returned |-> "none", error |-> "", n |-> 0 ]
    /\ test_dates = <<>>
    /\ loop_i = 0
    /\ current_picks = <<>>
    /\ other_picks = <<>>
    /\ rebalance_counter = 0
    /\ portfolio_value = 0
    /\ market_value = 0
    /\ equity_curve = <<>>
    /\ market_curve = <<>>
    /\ daily_results = <<>>

\* the locals of run_backtest are gone once it has returned
NoLocals ==
    /\ test_dates' = <<>>
    /\ loop_i' = 0
    /\ current_picks' = <<>>
    /\ other_picks' = <<>>
    /\ rebalance_counter' = 0
    /\ portfolio_value' = 0
    /\ market_value' = 0
    /\ equity_curve' = <<>>
    /\ market_curve' = <<>>
    /\ daily_results' = <<>>

\* run_backtest(stock_data, market_data, screener, start_date, end_date,
\* rebalance_days) up to the loop: the early returns, or the locals as
\* they are set before the first iteration.
run_backtest(args) ==
    LET sorted_dates == SortedDates(StockData(args.symbols))
        dates        == TestDates(sorted_dates, args.start_date, args.end_date)
        call         == [ op |-> "run_backtest", args |-> args, pc |-> "idle",
                          returned |-> "error", error |-> "", n |-> bt_call.n + 1 ]
    IN  /\ bt_call.pc = "idle"
        /\ IF sorted_dates = <<>>
           THEN /\ bt_call' = [call EXCEPT !.error = "No data available"]
                /\ NoLocals
           ELSE IF Len(dates) < MinDates
           THEN /\ bt_call' = [call EXCEPT !.error = "Not enough data for backtest"]
                /\ NoLocals
           ELSE /\ bt_call' = [call EXCEPT !.pc = "loop", !.returned = "none"]
                /\ test_dates' = dates
                /\ loop_i' = 0
                /\ portfolio_value' = initial_capital * Unit
                /\ market_value' = initial_capital * Unit
                /\ daily_results' = <<>>
                /\ equity_curve' = <<initial_capital * 100>>
                /\ market_curve' = <<initial_capital * 100>>
                /\ current_picks' = <<>>
                /\ other_picks' = <<>>
                /\ rebalance_counter' = 0
        /\ UNCHANGED <<num_picks, bt_results, qs_vars>>

\* One iteration of "for i, date in enumerate(test_dates[:-1])": the
\* rebalance, the counter, the day's returns and the appends.
LoopBody ==
    LET stock_data     == StockData(bt_call.args.symbols)
        market_data    == MarketData("A")
        date           == test_dates[loop_i + 1]
        next_date      == test_dates[loop_i + 2]
        screening_data == IF rebalance_counter = 0 THEN ScreeningData(stock_data, date)
                          ELSE <<>>
        screens        == rebalance_counter = 0 /\ Len(screening_data) >= 10
    IN  /\ bt_call.pc = "loop"
        /\ loop_i < Len(test_dates) - 1
        /\ IF screens
           THEN /\ market_returns' = BenchmarkAfter(market_returns, market_data)
                /\ results' = ScanResults(screening_data, market_data, market_returns)
                /\ scan_call' = [ op |-> "scan", symbols |-> Ranking(screening_data),
                                  market |-> "A", upto |-> date, raised |-> FALSE,
                                  benchmark |-> market_returns',
                                  ranking |-> Ranking(results') ]
                /\ prev_call' = scan_call
                /\ query_call' = NoQuery
                /\ signal_call' = NoSignal
                /\ current_picks' = Rebalanced(current_picks, results', num_picks)
                /\ other_picks' =
                      Rebalanced(other_picks,
                                 ScanResults(screening_data, MarketData("B"), NoBenchmark),
                                 num_picks)
           ELSE UNCHANGED <<qs_vars, current_picks, other_picks>>
        /\ rebalance_counter' = NextCounter(rebalance_counter, bt_call.args.rebalance_days)
        /\ portfolio_value' =
              PortfolioAfter(portfolio_value, current_picks', stock_data, date, next_date)
        /\ market_value' = MarketAfter(market_value, market_data, date, next_date)
        /\ daily_results' =
              Append(daily_results,
                     DailyResult(next_date, portfolio_value', market_value', current_picks'))
        /\ equity_curve' = Append(equity_curve, Round2(portfolio_value'))
        /\ market_curve' = Append(market_curve, Round2(market_value'))
        /\ loop_i' = loop_i + 1
        /\ UNCHANGED <<num_picks, bt_results, bt_call, test_dates>>

\* run_backtest after the loop: the summary, self.results and the return
Summarize ==
    /\ bt_call.pc = "loop"
    /\ loop_i = Len(test_dates) - 1
    /\ bt_results' =
          [ summary       |-> Summary(test_dates, portfolio_value, market_value,
                                      equity_curve),
            equity_curve  |-> equity_curve,
            market_curve  |-> market_curve,
            daily_results |-> daily_results,
            dates         |-> <<0>> \o Tail(test_dates) ]
    /\ bt_call' = [bt_call EXCEPT !.pc = "idle", !.returned = "results"]
    /\ NoLocals
    /\ UNCHANGED <<num_picks, qs_vars>>

-----------------------------------------------------------------------------
(* The daily run (run_screener.py)                                         *)

\* fetch_universe on IST date d: the symbols' bars dated up to d
Fetched(symbols, d) ==
    List([j \in 1 .. Len(symbols) |->
             [symbol |-> symbols[j],
              df     |-> FirstRows(History(symbols[j]),
                                   RowsUpTo(History(symbols[j]), d))]])

\* calculate_returns up to its record_daily_return call: the strategy and
\* market returns it records (in hundredths of a percent), or nothing
\* when there are fewer than two scan files or no pick has two bars.
CalculatedReturns(files, stock_data, market_data) ==
    IF Len(files) < 2 THEN <<>>
    ELSE LET prev_picks == Take(SelectSeq(files[Len(files) - 1].results,
                                          LAMBDA p : p.composite_score >= 5 * OnePct),
                                25)
             priced == SelectSeq(prev_picks, LAMBDA p :
                          /\ \E j \in 1 .. Len(stock_data) : stock_data[j].symbol = p.symbol
                          /\ RowCount(FrameIn(stock_data, p.symbol)) > 1)
             rets == List([j \in 1 .. Len(priced) |->
                              SimpleReturn(ILoc(FrameIn(stock_data, priced[j].symbol).close, 1),
                                           ILoc(FrameIn(stock_data, priced[j].symbol).close, 2))])
         IN  IF priced = <<>> THEN <<>>
             ELSE << Mean(rets),
                     IF RowCount(market_data) > 1
                     THEN SimpleReturn(ILoc(market_data.close, 1), ILoc(market_data.close, 2))
                     ELSE 0 >>

\* run_screener() on IST date d: fetch, scan with a new QuantScreener, save
\* scan_<d>.json, open the ledger with a new ReturnsTracker (its default
\* capital, scaled to 10.00) and calculate_returns.  The report it then
\* writes reads the ledger only.
run_screener(d) ==
    LET stock_data  == Fetched(<<"S01", "S04", "S08">>, d)
        market_data == FirstRows(MarketData("A"), RowsUpTo(MarketData("A"), d))
        benchmark   == MarketReturns(market_data, 20)
        scanned     == ScanResults(stock_data, market_data, benchmark)
        files       == SelectSeq(scan_files, LAMBDA f : f.scan_date < d)
                           \o << [scan_date |-> d, results |-> scanned] >>
                           \o SelectSeq(scan_files, LAMBDA f : f.scan_date > d)
        loaded      == LoadHistory(history_file, 1000)
        rets        == CalculatedReturns(files, stock_data, market_data)
        records     == rets # <<>> /\ ~AlreadyRecorded(loaded, d)
    IN  /\ rs_call' = [ist_date |-> d, last_bar |-> Last(market_data.dates)]
        /\ scan_files' = files
        /\ market_returns' = benchmark
        /\ results' = scanned
        /\ prev_call' = [ op |-> "benchmark", symbols |-> <<>>, market |-> "A",
                          upto |-> d, raised |-> FALSE, benchmark |-> benchmark,
                          ranking |-> <<>> ]
        /\ scan_call' = [ op |-> "scan", symbols |-> Ranking(stock_data), market |-> "A",
                          upto |-> d, raised |-> FALSE, benchmark |-> benchmark,
                          ranking |-> Ranking(scanned) ]
        /\ query_call' = NoQuery
        /\ signal_call' = NoSignal
        /\ rt_initial_capital' = 1000
        /\ history' = IF records
                      THEN Appended(loaded, 1000, d, rets[1], rets[2], <<>>)
                      ELSE loaded
        /\ history_file' = IF records
                           THEN Saved(Appended(loaded, 1000, d, rets[1], rets[2], <<>>))
                           ELSE history_file
        /\ rt_call' = IF rets = <<>>
                      THEN [op |-> "construct", date |-> 0, skipped |-> FALSE,
                            returned |-> NoReturn]
                      ELSE [op |-> "record", date |-> d, skipped |-> ~records,
                            returned |-> NoReturn]

-----------------------------------------------------------------------------
(* Specifications                                                          *)

\* no run_screener invocation was made: the output directory has no scan file
Init ==
    /\ InitLedger /\ InitScreener /\ InitBacktester
    /\ rs_call = [ist_date |-> 0, last_bar |-> 0]
    /\ scan_files = <<>>

NextLedger ==
    \/ \E capital \in Capitals :
          ReturnsTracker(capital) /\ UNCHANGED <<qs_vars, bt_vars, rs_vars>>
    \/ \E date \in LedgerDates, pct \in DailyPcts, picks \in PickLists :
          /\ Len(history.daily_returns) < MaxRecords \/ AlreadyRecorded(history, date)
          /\ record_daily_return(date, pct[1], pct[2], picks)
          /\ UNCHANGED <<qs_vars, bt_vars, rs_vars>>
    \/ reset_history /\ UNCHANGED <<qs_vars, bt_vars, rs_vars>>
    \/ FileDamaged /\ UNCHANGED <<qs_vars, bt_vars, rs_vars>>
    \/ get_period_returns /\ UNCHANGED <<qs_vars, bt_vars, rs_vars>>

\* the ledger alone: a backtester that is never run
LedgerInit == Init /\ num_picks = 1

SpecLedger == LedgerInit /\ [][NextLedger]_vars

NextScreener ==
    \/ \E symbols \in Universes, market \in Markets :
          scan_universe(symbols, market) /\ UNCHANGED <<rt_vars, bt_vars, rs_vars>>
    \/ \E market \in {"A", "B"} :
          set_market_benchmark(market) /\ UNCHANGED <<rt_vars, bt_vars, rs_vars>>

\* A screener that is scanned and queried.  The universes have scores
\* above, at and below 0 and two equal scores; n takes the defaults 20 and
\* 10 among others; the thresholds (in 1/10000) are the defaults 0.2 and
\* -0.2, scores that entries have, and bounds no entry passes.
NextQueries ==
    \/ \E symbols \in { <<"S01", "S02", "S04", "S06", "S07", "S08">>,
                        <<"S03", "S02", "S01">> },
          market \in {None, "A"} :
          scan_universe(symbols, market) /\ UNCHANGED <<rt_vars, bt_vars, rs_vars>>
    \/ \E n \in {0, 1, 2, 10, 20},
          min_score \in {2000, -2000, 4850, -3816, 6000, -6000} :
          get_top_stocks(n, min_score) /\ UNCHANGED <<rt_vars, bt_vars, rs_vars>>
    \/ \E n \in {0, 1, 2, 10, 20},
          max_score \in {2000, -2000, 4850, -3816, 6000, -6000} :
          get_bottom_stocks(n, max_score) /\ UNCHANGED <<rt_vars, bt_vars, rs_vars>>

\* Signals called one at a time on histories whose lengths lie on both
\* sides of every minimum lookback, with and without the columns a signal
\* reads, before and after a benchmark is set.
NextSignals ==
    \/ \E k \in SignalIds, symbol \in {"S01", "S01X", "S05V"},
          rows \in {0, 9, 10, 24, 25, 29, 30, 59, 60} :
          compute(k, symbol, rows) /\ UNCHANGED <<rt_vars, bt_vars, rs_vars>>
    \/ set_market_benchmark("A") /\ UNCHANGED <<rt_vars, bt_vars, rs_vars>>

\* the screener alone: a ledger and a backtester that are never used
ScreenerInit == Init /\ rt_initial_capital = 1000 /\ num_picks = 1

SpecScreener == ScreenerInit /\ [][NextScreener]_vars

\* signals that are called directly
SpecSignals == ScreenerInit /\ [][NextSignals]_vars

\* a screener that is scanned and queried
SpecQueries == ScreenerInit /\ [][NextQueries]_vars

NextBacktest ==
    \/ \E args \in RunArgs :
          bt_call.n < MaxRuns /\ run_backtest(args) /\ UNCHANGED <<rt_vars, rs_vars>>
    \/ LoopBody /\ UNCHANGED <<rt_vars, rs_vars>>
    \/ Summarize /\ UNCHANGED <<rt_vars, rs_vars>>

\* backtests, over a ledger that is never used
BacktestInit == Init /\ rt_initial_capital = 1000

SpecBacktest == BacktestInit /\ [][NextBacktest]_vars

\* run_screener invoked day after day, on trading days and on the holiday,
\* some days twice and some days not at all
NextDaily ==
    \/ \E d \in 65 .. NumDays :
          d >= rs_call.ist_date /\ run_screener(d) /\ UNCHANGED bt_vars

SpecDaily == ScreenerInit /\ [][NextDaily]_vars

-----------------------------------------------------------------------------
(* Properties of the returns ledger (SpecLedger)                           *)

\* C1: record_daily_return is idempotent by date.  A call with a date that
\* already has a record leaves daily_returns, strategy_equity,
\* market_equity and both total-return fields (all of history) and the
\* saved file as they were, whatever returns it is handed, and ends as a
\* logged skip, not an error.
C1_RecordIsIdempotentByDate ==
    [][ ( /\ rt_call'.op = "record"
          /\ \E r \in 1 .. Len(history.daily_returns) :
                history.daily_returns[r].date = rt_call'.date )
        => ( /\ history' = history
             /\ history_file' = history_file
             /\ rt_initial_capital' = rt_initial_capital
             /\ rt_call'.skipped ) ]_vars

\* C1, its case: a date was recorded again while the ledger held two
\* records, the first of them for that date.
C1_RecordedAgain ==
    /\ rt_call.op = "record"
    /\ rt_call.skipped
    /\ Len(history.daily_returns) = 2
    /\ history.daily_returns[1].date = rt_call.date

\* C2: every value of the strategy and benchmark equity curves of the
\* ledger is strictly greater than 0.
C2_LedgerCurvesPositive ==
    /\ \A j \in 1 .. Len(history.strategy_equity) : history.strategy_equity[j] > 0
    /\ \A j \in 1 .. Len(history.market_equity) : history.market_equity[j] > 0

-----------------------------------------------------------------------------
(* Properties of the screener (SpecScreener)                               *)

\* C5: scan_universe is invariant to input ordering.  Two scans in a row of
\* the same symbols, in whatever iteration order, against the same
\* benchmark return the same ordered sequence of symbols.
C5_ScanIgnoresInputOrder ==
    ( /\ scan_call.op = "scan" /\ ~scan_call.raised
      /\ prev_call.op = "scan" /\ ~prev_call.raised
      /\ { scan_call.symbols[j] : j \in 1 .. Len(scan_call.symbols) }
            = { prev_call.symbols[j] : j \in 1 .. Len(prev_call.symbols) }
      /\ scan_call.benchmark = prev_call.benchmark )
    => scan_call.ranking = prev_call.ranking

\* C6: the list scan_universe returns and stores is sorted non-increasing
\* by composite_score: every entry's score is at least the next one's.
C6_ResultsSortedDescending ==
    /\ \A j \in 1 .. Len(results) - 1 :
          results[j].composite_score >= results[j + 1].composite_score
    /\ (scan_call.op = "scan" /\ ~scan_call.raised) => scan_call.ranking = Ranking(results)

\* C6, its case: a scan returned three symbols, the first handed in with
\* the lowest score, and ranked it last.
C6_ScanReordered ==
    /\ scan_call.op = "scan"
    /\ Len(results) = 3
    /\ results[3].symbol = scan_call.symbols[1]
    /\ results[1].composite_score > results[3].composite_score

\* the outcomes of the signals with every raise replaced by a returned 0.0
AsNeutral(outcomes) ==
    List([k \in SignalIds |-> IF outcomes[k].raised THEN Value(0) ELSE outcomes[k]])

\* C7: a signal whose compute raises counts as a returned 0.0.  Every
\* scored symbol has the composite it would have with each raising signal
\* returning 0.0, the signal's weight still in the weighted mean.
C7_RaisedSignalCountsAsZero ==
    \A j \in 1 .. Len(results) :
        LET outcomes == List([k \in SignalIds |->
                                 Compute(k, FirstRows(History(results[j].symbol),
                                                      RowsUpTo(History(results[j].symbol),
                                                               scan_call.upto)),
                                         scan_call.benchmark)])
        IN  results[j].composite_score = Aggregate(AsNeutral(outcomes)).composite_score

\* whether the last call was a scan of the three 30-day paths
ScannedPaths ==
    /\ scan_call.op = "scan"
    /\ ~scan_call.raised
    /\ scan_call.symbols = <<"UP", "FLAT", "DOWN">>

\* TrendConsistency on the 30-day paths: up positive, flat 0, down negative
TrendOfPaths ==
    /\ TrendConsistency(History("UP"), 20).value > 0
    /\ TrendConsistency(History("FLAT"), 20).value = 0
    /\ TrendConsistency(History("DOWN"), 20).value < 0

\* C10 as stated: on the 30-day paths up 10 %, flat and down 10 %,
\* TrendConsistency is positive, 0 and negative, and scan_universe ranks
\* the up path above the flat path above the down path.
C10_PathsRankedUpFlatDown ==
    ScannedPaths => (TrendOfPaths /\ scan_call.ranking = <<"UP", "FLAT", "DOWN">>)

\* C10 as the code has it: TrendConsistency is positive, 0 and negative on
\* the three paths, and scan_universe returns an empty ranking for them,
\* since score_stock scores no history shorter than 60 bars.
C10_PathsTooShortToRank ==
    ScannedPaths => (TrendOfPaths /\ results = <<>> /\ scan_call.ranking = <<>>)

\* C10, its case: the three paths have been scanned, after a scan that
\* had ranked other symbols.
C10_PathsScanned ==
    ScannedPaths /\ prev_call.op = "scan" /\ prev_call.ranking # <<>>

-----------------------------------------------------------------------------
(* Properties of the backtest (SpecBacktest)                               *)

\* C3: no lookahead.  The picks held after the step of date[i] depend only
\* on bars dated on or before date[i]: over a benchmark with the same bars
\* up to and including date[i], the same picks are held.
C3_NoLookahead ==
    ( /\ bt_call.pc = "loop"
      /\ loop_i > 0
      /\ test_dates[loop_i] <= LastSameDay )
    => Ranking(current_picks) = Ranking(other_picks)

\* C4: with rebalance_days = k the held picks change only at steps i with
\* i mod k = 0; at every other step they are those of the step before.
C4_PicksChangeOnlyOnRebalance ==
    [][ ( /\ bt_call.pc = "loop"
          /\ loop_i' = loop_i + 1
          /\ loop_i % bt_call.args.rebalance_days # 0 )
        => current_picks' = current_picks ]_vars

\* C4, its case: the step just done was no rebalance step, picks are held,
\* and the screener would have picked other symbols on that day.
C4_HeldAgainstTheRanking ==
    /\ bt_call.pc = "loop"
    /\ loop_i > 0
    /\ (loop_i - 1) % bt_call.args.rebalance_days # 0
    /\ current_picks # <<>>
    /\ LET would_pick ==
              TopPicks(ScanResults(ScreeningData(StockData(bt_call.args.symbols),
                                                 test_dates[loop_i]),
                                   MarketData("A"), market_returns),
                       num_picks)
       IN  would_pick # <<>> /\ Ranking(would_pick) # Ranking(current_picks)

\* C8: a start_date later than every available date is reported as
\* insufficient data: the call returns the error and computes nothing.
C8_StartBeyondDataIsAnError ==
    ( /\ bt_call.op = "run_backtest"
      /\ bt_call.args.symbols # <<>>
      /\ bt_call.args.start_date > NumDays )
    => ( /\ bt_call.pc = "idle"
         /\ bt_call.returned = "error"
         /\ equity_curve = <<>> /\ market_curve = <<>> /\ daily_results = <<>> )

\* C9: with fewer than 10 dates in the selected range run_backtest returns
\* an error result only: no curve, summary or daily record is produced and
\* the stored results stay as they were.
C9_TooFewDatesIsAnErrorOnly ==
    [][ ( /\ bt_call'.n = bt_call.n + 1
          /\ \E args \in RunArgs :
                /\ args = bt_call'.args
                /\ Len(TestDates(SortedDates(StockData(args.symbols)),
                                 args.start_date, args.end_date)) < 10 )
        => ( /\ bt_call'.pc = "idle"
             /\ bt_call'.returned = "error"
             /\ bt_results' = bt_results
             /\ equity_curve' = <<>> /\ market_curve' = <<>> /\ daily_results' = <<>> ) ]_vars

\* C9, its case: a call over too few dates returned the error while the
\* backtester held the results of an earlier run.
C9_ErrorAfterResults ==
    /\ bt_call.returned = "error"
    /\ bt_call.error = "Not enough data for backtest"
    /\ bt_results # NoResults
    /\ Len(bt_results.equity_curve) >= 10


\* C11: the benchmark is supplied per run and not retained: a scan called
\* without a benchmark returns what a screener that never saw a benchmark
\* returns for the same histories.
C11_ScanWithoutBenchmarkIgnoresEarlierOne ==
    (scan_call.op = "scan" /\ ~scan_call.raised /\ scan_call.market = None)
        => results = ScanResults(StockData(scan_call.symbols), NoFrame, NoBenchmark)


\* C12: after every record_daily_return that recorded and every
\* reset_history, a tracker constructed over the history file, with whatever
\* capital, has the record list and the two equity curves of the writer.
C12_ReloadGivesTheWrittenLedger ==
    (rt_call.op \in {"record", "reset"} /\ ~rt_call.skipped)
        => \A capital \in Capitals :
               LET loaded == LoadHistory(history_file, capital)
               IN  /\ loaded.daily_returns = history.daily_returns
                   /\ loaded.strategy_equity = history.strategy_equity
                   /\ loaded.market_equity = history.market_equity

\* A record with picks was written after a record without: the file holds
\* nulls, strings, numbers and curves of three values.
C12_TwoRecordsWritten ==
    /\ rt_call.op = "record" /\ ~rt_call.skipped
    /\ Len(history.daily_returns) = 2
    /\ history.daily_returns[1].top_performer = None
    /\ history.daily_returns[2].top_performer = "B"
    /\ history_file.status = "ok"
    /\ history_file.content.members.daily_returns.items[1].members.top_performer.json = "null"


\* C13: in every ledger state the two equity curves are equally long and
\* one longer than the list of daily records.
C13_CurvesOneLongerThanRecords ==
    /\ Len(history.strategy_equity) = Len(history.market_equity)
    /\ Len(history.strategy_equity) = Len(history.daily_returns) + 1

\* A duplicate-date call came back on a ledger of two records.
C13_DuplicateAfterTwoRecords ==
    /\ rt_call.op = "record" /\ rt_call.skipped
    /\ Len(history.daily_returns) = 2
    /\ Len(history.market_equity) = 3

\* C14: in every ledger state no two daily records have the same date.
C14_OneRecordPerDate ==
    \A i, j \in 1 .. Len(history.daily_returns) :
        history.daily_returns[i].date = history.daily_returns[j].date => i = j

\* A date was offered again to a ledger whose records are out of date order.
C14_RepeatedDateOutOfOrder ==
    /\ rt_call.op = "record" /\ rt_call.skipped
    /\ Len(history.daily_returns) = 2
    /\ history.daily_returns[1].date > history.daily_returns[2].date
    /\ rt_call.date = history.daily_returns[1].date

\* C17: a tracker constructed over a missing or unreadable history file has
\* the fresh ledger: no records, both curves [initial_capital], totals 0.
C17_NoFileGivesFreshLedger ==
    (rt_call.op = "construct" /\ history_file.status \in {"missing", "unreadable"})
        => /\ history.daily_returns = <<>>
           /\ history.strategy_equity = <<rt_initial_capital>>
           /\ history.market_equity = <<rt_initial_capital>>
           /\ history.total_strategy_return_pct = 0
           /\ history.total_market_return_pct = 0

\* A tracker was constructed, with the larger capital, over a file that had
\* been written and was damaged since.
C17_ConstructedOverDamagedFile ==
    /\ rt_call.op = "construct"
    /\ history_file = Unreadable
    /\ rt_initial_capital = 2000


\* C16: get_period_returns reports, for each horizon k, the change of the
\* strategy curve over its last k days in percent (2 decimals) when the
\* curve is longer than k, and 0 when it is not.
C16_PeriodReturnsReported ==
    rt_call.op = "period_returns"
        => /\ ~rt_call.returned.raised
           /\ \A h \in 1 .. Len(Horizons) :
                  LET equity == history.strategy_equity
                      k == Horizons[h]
                  IN  rt_call.returned.values[h] =
                          IF Len(equity) > k
                          THEN CalcReturn(equity, k)
                          ELSE 0


\* C19: when scoring a symbol raises, the scan still returns, the symbol is
\* left out, and the result is the one of the universe without that symbol.
C19_RaisingSymbolIsLeftOut ==
    (scan_call.op = "scan" /\ ~scan_call.raised)
        => LET data == StockData(scan_call.symbols)
               Raises(item) ==
                   score_stock(item.symbol, item.df, scan_call.benchmark).status = "raised"
               others == SelectSeq(data, LAMBDA item : ~Raises(item))
           IN  /\ results = ScanResults(others, NoFrame, scan_call.benchmark)
               /\ \A i \in 1 .. Len(data) :
                      Raises(data[i]) =>
                          \A j \in 1 .. Len(results) : results[j].symbol # data[i].symbol

\* A universe with a symbol whose scoring raises was scanned, and the two
\* other symbols were ranked.
C19_ScannedWithRaisingSymbol ==
    /\ scan_call.op = "scan" /\ ~scan_call.raised
    /\ scan_call.symbols = <<"S04", "S01X", "S05V">>
    /\ score_stock("S05V", History("S05V"), scan_call.benchmark) = ScoreRaised
    /\ {results[j].symbol : j \in 1 .. Len(results)} = {"S04", "S01X"}


\* C18: get_top_stocks returns, in rank order, the first n entries of the
\* last scan whose score is at least min_score; get_bottom_stocks returns
\* the n lowest-scoring entries whose score is at most max_score, in
\* ascending order; neither changes the stored results or the benchmark.
C18_QueriesArePureSlices ==
    [][ query_call'.op # "none" =>
          LET q == query_call'
              passing == {i \in 1 .. Len(results) :
                             IF q.op = "top" THEN results[i].composite_score >= q.score
                             ELSE results[i].composite_score <= q.score}
              returned_symbols == {q.returned[j].symbol : j \in 1 .. Len(q.returned)}
          IN  /\ results' = results
              /\ market_returns' = market_returns
              /\ scan_call' = scan_call
              /\ Len(q.returned) = Min(q.n, Cardinality(passing))
              /\ q.op = "top" =>
                     \A j \in 1 .. Len(q.returned) :
                         \E i \in passing :
                             /\ Cardinality({i2 \in passing : i2 < i}) = j - 1
                             /\ q.returned[j] = results[i]
              /\ q.op = "bottom" =>
                     /\ Cardinality(returned_symbols) = Len(q.returned)
                     /\ \A j \in 1 .. Len(q.returned) :
                            \E i \in passing : q.returned[j] = results[i]
                     /\ \A j, k \in 1 .. Len(q.returned) :
                            j < k => q.returned[j].composite_score
                                         <= q.returned[k].composite_score
                     /\ \A i \in passing :
                            results[i].symbol \notin returned_symbols =>
                                \A j \in 1 .. Len(q.returned) :
                                    q.returned[j].composite_score
                                        <= results[i].composite_score
      ]_vars

\* A bottom query cut the six entries of the last scan by score and by
\* count and returned them lowest first: the reverse of their rank order.
C18_BottomCutAndReversed ==
    /\ Ranking(results) = <<"S02", "S08", "S01", "S07", "S06", "S04">>
    /\ query_call.op = "bottom" /\ query_call.n = 2 /\ query_call.score = 2000
    /\ Ranking(query_call.returned) = <<"S04", "S06">>


\* C15: the convergence bonus is 0.2 for five or more active signals, 0.1
\* for three or more, else 0; the composite score is the weighted mean
\* plus the bonus when more active signals are positive than negative,
\* minus the bonus when more are negative, and the mean itself when the
\* two counts are equal.
C15_BonusFollowsActiveMajority ==
    (scan_call.op = "scan" /\ ~scan_call.raised)
        => \A j \in 1 .. Len(results) :
               LET df == History(results[j].symbol)
                   outcomes == List([k \in SignalIds |->
                                        Compute(k, df, scan_call.benchmark)])
                   counted == {k \in SignalIds : ~outcomes[k].raised}
                   active == {k \in counted : Abs(outcomes[k].value) > (3 * Unit) \div 10}
                   positive == Cardinality({k \in active : outcomes[k].value > 0})
                   negative == Cardinality({k \in active : outcomes[k].value < 0})
                   bonus == IF Cardinality(active) >= 5 THEN (2 * Unit) \div 10
                            ELSE IF Cardinality(active) >= 3 THEN Unit \div 10
                            ELSE 0
                   adjustment == IF positive > negative THEN bonus
                                 ELSE IF negative > positive THEN -bonus
                                 ELSE 0
                   weight == Sum([k \in SignalIds |->
                                     IF k \in counted THEN Signals[k].weight ELSE 0])
                   weighted == Sum([k \in SignalIds |->
                                       IF k \in counted
                                       THEN outcomes[k].value * Signals[k].weight
                                       ELSE 0])
               IN  results[j].composite_score =
                       RoundDiv(weighted + adjustment * weight, weight)


\* C20: every signal gives a value in [-1, 1] for the histories it is
\* computed on: volume_spike a value in [0, 1], and the tiered signals only
\* values of their tiers.
C20_SignalsWithinRange ==
    scan_call.op = "scan"
        => \A s \in 1 .. Len(scan_call.symbols), k \in SignalIds :
               LET whole == History(scan_call.symbols[s])
                   df == FirstRows(whole, RowsUpTo(whole, scan_call.upto))
                   outcome == Compute(k, df, scan_call.benchmark)
                   half == Unit \div 2
                   tenth == Unit \div 10
                   v == outcome.value
               IN  ~outcome.raised =>
                       /\ -Unit <= v /\ v <= Unit
                       /\ Signals[k].name = "volume_spike" => v >= 0
                       /\ Signals[k].name = "vol_compression" => v \in {Unit, half, -half, 0}
                       /\ Signals[k].name = "mean_reversion"
                              => v \in {8 * tenth, half, -8 * tenth, -half, 0}
                       /\ Signals[k].name \in {"trend_quality", "relative_strength"}
                              => v \in {Unit, half, 0, -half, -Unit}
                       /\ Signals[k].name = "gap_pattern"
                              => v \in {8 * tenth, 4 * tenth, 0, -4 * tenth, -8 * tenth}
                       /\ Signals[k].name = "day_effect" => v \in {half, 0, -half}

\* A screening of the backtest scored a symbol whose price acceleration is
\* at a bound of the range and whose volume spike is positive.
C20_SignalAtTheBound ==
    /\ scan_call.op = "scan" /\ scan_call.upto < NumDays
    /\ \E j \in 1 .. Len(results) :
           /\ results[j].signal_breakdown[10] \in {Unit, -Unit}
           /\ results[j].signal_breakdown[3] > 0


\* C21: a symbol with fewer than 60 bars as of the scan is in no scan
\* result and is never a held pick of a backtest, although the screen
\* admits symbols with 20 bars.
C21_ShortHistoriesAreNeverRanked ==
    LET Bars(symbol) == RowsUpTo(History(symbol), scan_call.upto)
    IN  /\ \A j \in 1 .. Len(results) : Bars(results[j].symbol) >= 60
        /\ \A j \in 1 .. Len(current_picks) : Bars(current_picks[j].symbol) >= 60

\* A screen of the backtest admitted a symbol with 20 to 59 bars, left it
\* out of the ranking, and picks are held.
C21_ShortHistoryScreened ==
    /\ bt_call.pc = "loop" /\ scan_call.op = "scan" /\ scan_call.upto < NumDays
    /\ current_picks # <<>>
    /\ \E s \in 1 .. Len(scan_call.symbols) :
           /\ RowsUpTo(History(scan_call.symbols[s]), scan_call.upto) \in 20 .. 59
           /\ \A j \in 1 .. Len(results) : results[j].symbol # scan_call.symbols[s]


\* C22: at a rebalance tick with fewer than 10 eligible symbols, or whose
\* screen has no entry with a score above 0, the held picks stay what they
\* were; otherwise they become the first num_picks entries of the scan
\* with a score above 0.
C22_PicksPersistOrAreReplaced ==
    [][ (bt_call.pc = "loop" /\ loop_i' = loop_i + 1 /\ rebalance_counter = 0) =>
          LET date == test_dates[loop_i + 1]
              eligible == {s \in 1 .. Len(bt_call.args.symbols) :
                              RowsUpTo(History(bt_call.args.symbols[s]), date) >= 20}
              above == {j \in 1 .. Len(results') : results'[j].composite_score > 0}
              screened == Cardinality(eligible) >= 10
          IN  IF ~screened \/ above = {}
              THEN current_picks' = current_picks
              ELSE /\ scan_call'.upto = date
                   /\ Len(current_picks') = Min(num_picks, Cardinality(above))
                   /\ \A p \in 1 .. Len(current_picks') :
                          \E j \in above :
                              /\ Cardinality({j2 \in above : j2 < j}) = p - 1
                              /\ current_picks'[p] = results'[j]
      ]_vars


\* A daily rebalance tick screened its date and found no entry with a score
\* above 0, and picks of an earlier tick are held.
C22_HeldThroughEmptyScreen ==
    /\ bt_call.pc = "loop" /\ loop_i >= 1
    /\ bt_call.args.rebalance_days = 1
    /\ scan_call.upto = test_dates[loop_i]
    /\ \A j \in 1 .. Len(results) : results[j].composite_score <= 0
    /\ current_picks # <<>>


\* C23: in each backtest step the portfolio value is multiplied by 1 + the
\* mean of the close-to-close returns of the held picks that have a close
\* on both dates; a pick without a close on either date is left out of the
\* mean, and with no pick priced on both dates the value stays as it is.
C23_MeanOverPricedPicks ==
    [][ (bt_call.pc = "loop" /\ loop_i' = loop_i + 1) =>
          \E symbols \in {<<>>} \cup {<<a>> : a \in {"S01", "S04", "S08", "S10"}}
                         \cup {<<a, b>> : a, b \in {"S01", "S04", "S08", "S10"}} :
              /\ symbols = Ranking(current_picks')
              /\ LET date == test_dates[loop_i + 1]
                     next_date == test_dates[loop_i + 2]
                     priced == SelectSeq(symbols, LAMBDA s :
                                   /\ HasDate(History(s), date)
                                   /\ HasDate(History(s), next_date))
                     returns == List([p \in 1 .. Len(priced) |->
                                         RoundDiv((CloseOn(History(priced[p]), next_date)
                                                      - CloseOn(History(priced[p]), date))
                                                  * Unit,
                                                  CloseOn(History(priced[p]), date))])
                 IN  portfolio_value' =
                         IF priced = <<>> THEN portfolio_value
                         ELSE portfolio_value
                                  + RoundDiv(portfolio_value
                                                 * RoundDiv(Sum(returns), Len(returns)),
                                             Unit)
      ]_vars

\* Two picks were held over a step on whose second date one of them has no
\* bar: the step's return is the other pick's alone.
C23_OnePickWithoutPrice ==
    /\ bt_call.pc = "loop" /\ loop_i >= 1
    /\ Ranking(current_picks) = <<"S04", "S10">>
    /\ ~HasDate(History("S10"), test_dates[loop_i + 1])
    /\ HasDate(History("S04"), test_dates[loop_i + 1])
    /\ portfolio_value # initial_capital * Unit


\* C24: while run_backtest loops, both curves start at the initial capital
\* and are one longer than the number of steps taken; in its result they
\* are as long as the dates sequence and one longer than daily_results:
\* trading_days + 1 values.
C24_CurvesFollowTheSteps ==
    /\ bt_call.pc = "loop" =>
           /\ equity_curve[1] = initial_capital * 100
           /\ market_curve[1] = initial_capital * 100
           /\ Len(equity_curve) = 1 + loop_i
           /\ Len(market_curve) = 1 + loop_i
           /\ Len(daily_results) = loop_i
    /\ bt_results # NoResults =>
           /\ bt_results.equity_curve[1] = initial_capital * 100
           /\ bt_results.market_curve[1] = initial_capital * 100
           /\ Len(bt_results.equity_curve) = Len(bt_results.dates)
           /\ Len(bt_results.market_curve) = Len(bt_results.dates)
           /\ Len(bt_results.equity_curve) = Len(bt_results.daily_results) + 1
           /\ Len(bt_results.equity_curve) = bt_results.summary.trading_days + 1

\* A backtest over the whole history came back with its result.
C24_LongRunFinished ==
    /\ bt_call.returned = "results"
    /\ bt_results # NoResults
    /\ bt_results.summary.trading_days = 70
    /\ Len(bt_results.market_curve) = 71

\* C25: the max_drawdown of a backtest is never negative, and is 0 when
\* the equity curve never falls.
C25_DrawdownNeverNegative ==
    bt_results # NoResults =>
        LET curve == bt_results.equity_curve
        IN  /\ bt_results.summary.max_drawdown_pct >= 0
            /\ (\A j \in 1 .. (Len(curve) - 1) : curve[j] <= curve[j + 1])
                   => bt_results.summary.max_drawdown_pct = 0

\* A backtest of nine symbols, too few to screen, came back with an equity
\* curve that never falls while the market curve does.
C25_CurveNeverFalls ==
    /\ bt_results # NoResults
    /\ Len(bt_results.equity_curve) >= 10
    /\ \A j \in 1 .. (Len(bt_results.equity_curve) - 1) :
           bt_results.equity_curve[j] <= bt_results.equity_curve[j + 1]
    /\ \E j \in 1 .. (Len(bt_results.market_curve) - 1) :
           bt_results.market_curve[j] > bt_results.market_curve[j + 1]
    /\ bt_results.summary.max_drawdown_pct = 0


-----------------------------------------------------------------------------
(* Properties of the signals called directly (SpecSignals)                 *)

\* C26: a signal handed a history shorter than its minimum lookback, and
\* RelativeStrength with no benchmark set, returns exactly 0.0 and raises
\* no error.
C26_ShortHistoryIsNeutral ==
    LET lookback == <<5 + 20, 10 + 20, 20 + 5, 20 + 10, 20 + 10, 20 + 5,
                      20 + 5, 10, 60, 10 * 3, 20 + 5>>
        c == signal_call
    IN  ( /\ c # NoSignal
          /\ \/ c.rows < lookback[c.k]
             \/ c.k = 7 /\ market_returns = NoBenchmark )
        => c.outcome = Value(0)

\* VolumeSpike returned 0.0 for a history of 24 bars that has no volume
\* column, a history that makes it raise once it is long enough.
C26_ShortFrameWithoutColumn ==
    /\ signal_call.k = 3
    /\ signal_call.symbol = "S05V"
    /\ signal_call.rows = 24
    /\ signal_call.outcome = Value(0)
    /\ Compute(3, FirstRows(History("S05V"), 25), market_returns) = Raised


-----------------------------------------------------------------------------
(* Further properties of the screener (SpecScreener)                       *)

\* C27: in every StockScore of a scan, active_signals is the number of
\* signals counted as positive plus the number counted as negative for the
\* convergence bonus; both counts are taken over the values of the
\* signal_breakdown.
C27_ActiveIsPositivePlusNegative ==
    (scan_call.op = "scan" /\ ~scan_call.raised)
        => \A j \in 1 .. Len(results) :
               LET scores == results[j].signal_breakdown
                   positive_signals ==
                       Cardinality({k \in SignalIds : scores[k] > (3 * Unit) \div 10})
                   negative_signals ==
                       Cardinality({k \in SignalIds : scores[k] < -((3 * Unit) \div 10)})
               IN  results[j].active_signals = positive_signals + negative_signals


-----------------------------------------------------------------------------
(* Further properties of the returns ledger (SpecLedger)                   *)

\* C28: after every successful append, also one made by a tracker that was
\* constructed with another initial_capital over a saved ledger, each
\* total return is (last / first - 1) x 100 of its equity curve, up to the
\* cent the curve's values are rounded to.
C28_TotalsFollowTheCurves ==
    (rt_call.op = "record" /\ ~rt_call.skipped) =>
        LET first == history.strategy_equity[1]
            \* what half a cent of the last value can move the total by
            slack == (100 * OnePct) \div first
            strategy == RoundDiv((Last(history.strategy_equity) - first) * 100 * OnePct,
                                 first)
            market == RoundDiv((Last(history.market_equity) - history.market_equity[1])
                                   * 100 * OnePct,
                               history.market_equity[1])
        IN  /\ Abs(history.total_strategy_return_pct - strategy) <= slack
            /\ Abs(history.total_market_return_pct - market) <= slack


-----------------------------------------------------------------------------
(* Further properties of the backtester (SpecBacktest)                     *)

\* C29: when run_backtest is given a start_date and an end_date, every
\* date it simulates lies between them: the first test date is not before
\* start_date and the last is not after end_date.
C29_DatesWithinRequestedRange ==
    ( /\ bt_call.pc = "loop"
      /\ bt_call.args.start_date # NoDate
      /\ bt_call.args.end_date # NoDate )
    => /\ test_dates[1] >= bt_call.args.start_date
       /\ Last(test_dates) <= bt_call.args.end_date


-----------------------------------------------------------------------------
(* Properties of the daily run (SpecDaily)                                 *)

\* C30: run_screener compounds each close-to-close move at most once.  When
\* an invocation that recorded the move into the last bar is followed by
\* an invocation on a later date that fetches the same last bar (a
\* holiday), the later invocation appends no record.
C30_EachMoveCompoundedOnce ==
    [][ ( /\ rs_call'.ist_date > rs_call.ist_date
          /\ rs_call'.last_bar = rs_call.last_bar
          /\ rt_call.op = "record"
          /\ ~rt_call.skipped
          /\ rt_call.date = rs_call.ist_date )
        => history'.daily_returns = history.daily_returns ]_vars

=============================================================================
